---------------------------- MODULE Spec2Model ----------------------------
(***************************************************************************)
(* Model of reminder_san: the recurrence next-occurrence calculator        *)
(* (scheduler.py, _calculate_next_time), the recurrence detector           *)
(* (llm_parser.py, parse_repeat_pattern) and the reminder scheduler        *)
(* (scheduler.py, check_and_send_reminders and friends) over the reminders *)
(* table (database.py).                                                    *)
(*                                                                         *)
(* Timestamps are Python datetime values in the one configured zone        *)
(* (Asia/Tokyo, no daylight saving): records of the datetime fields.       *)
(* Weekdays are Python's: Monday = 0 ... Sunday = 6.                       *)
(* Japanese tokens are written in ASCII: dai = 第, zenjitsu = の前日,       *)
(* getsu ka sui moku kin do nichi = 月 火 水 木 金 土 日.                   *)
(***************************************************************************)
EXTENDS Integers, Sequences, FiniteSets, TLC

VARIABLES
    cur,        \* advance: the occurrence that fired (current)
    rule,       \* advance: [repeat_type, repeat_value] of the fired reminder
    nxt,        \* advance: what _calculate_next_time returned (None before the call)
    aphase,     \* advance: "input" before the call, "done" after it
    phrase,     \* detector: the user's phrase (tokenised)
    now,        \* detector: the reference instant of the call
    parsed,     \* detector: what parse_repeat_pattern returned (None before the call)
    dphase,     \* detector: "input" before the call, "done" after it
    db,         \* scheduler: the reminders table, id -> row
    clock,      \* scheduler: the wall clock, datetime.now(self.tz)
    boot,       \* scheduler: "starting" until start() has run its check, then "running"
    task,       \* scheduler: the _process_one tasks created so far, in creation order
    log,        \* scheduler: history of pick-ups, exhausted rules and snoozes, in order,
                \*            each with the row before and after it
    sqlite_sequence,    \* storage: the largest id AUTOINCREMENT has given in reminders
    user_input, \* parse_reminder_input: the user's input, as a sequence of tokens
    instant,    \* parse_reminder_input: the instant the input is parsed at
    answer,     \* parse_reminder_input: what the call returned or raised
    stage,      \* parse_reminder_input: position of the call
    calls,      \* parse_reminder_input: the stages the call has invoked, in order
    retry_count,    \* main: consecutive crashes counted so far
    last_crash,     \* main: time.time() of the last crash (0 before the first)
    wall,           \* main: time.time(), in whole seconds
    mpc,            \* main: position of main()
    mlog            \* main: the starts, crashes, sleeps and the return, in order

avars == <<cur, rule, nxt, aphase>>
dvars == <<phrase, now, parsed, dphase>>
svars == <<db, clock, boot, task, log, sqlite_sequence>>
rvars == <<user_input, instant, answer, stage, calls>>
mvars == <<retry_count, last_crash, wall, mpc, mlog>>
vars == <<cur, rule, nxt, aphase, phrase, now, parsed, dphase, db, clock, boot, task, log,
          sqlite_sequence,
          user_input, instant, answer, stage, calls, retry_count, last_crash, wall, mpc, mlog>>

\* Python's None.
None == [none |-> TRUE]
\* A repeat_value of None (NULL): a string with no token, as `repeat_value or ""`.
NoValue == <<>>
\* An uncaught ValueError leaving the function.
ValueError == [raised |-> "ValueError"]
\* An uncaught OverflowError leaving the function.
OverflowError == [raised |-> "OverflowError"]
\* The value stands for an exception that left the function.
Raised(x) == x \in {ValueError, OverflowError}

-----------------------------------------------------------------------------
(* The proleptic Gregorian calendar of Python's datetime module.            *)

IsLeap(y) == (y % 4 = 0) /\ ((y % 100 # 0) \/ (y % 400 = 0))

DaysInMonth(y, m) ==
    IF m = 2 THEN (IF IsLeap(y) THEN 29 ELSE 28)
    ELSE IF m \in {4, 6, 9, 11} THEN 30 ELSE 31

\* Days before January 1st of year y.
DaysBeforeYear(y) ==
    LET p == y - 1 IN p * 365 + (p \div 4) - (p \div 100) + (p \div 400)

RECURSIVE DaysBeforeMonth(_, _)
\* Days in year y before the first day of month m.
DaysBeforeMonth(y, m) ==
    IF m = 1 THEN 0 ELSE DaysBeforeMonth(y, m - 1) + DaysInMonth(y, m - 1)

\* date.toordinal(): 0001-01-01 is day 1.
ToOrdinal(y, m, d) == DaysBeforeYear(y) + DaysBeforeMonth(y, m) + d

\* _ord2ymd, last step: month and day from the year y and the 0-based day n
\* of the year, given the estimate m0 of the month and the days p0 before it.
MonthAndDay(y, n, m0, p0) ==
    IF p0 > n
    THEN [year |-> y, month |-> m0 - 1, day |-> n - (p0 - DaysInMonth(y, m0 - 1)) + 1]
    ELSE [year |-> y, month |-> m0, day |-> n - p0 + 1]

\* _ord2ymd once the 400-, 100-, 4- and 1-year cycles are counted off.
YearAndDay(n400, n100, n4, n1, n) ==
    IF n1 = 4 \/ n100 = 4
    THEN [year |-> n400 * 400 + n100 * 100 + n4 * 4 + n1, month |-> 12, day |-> 31]
    ELSE MonthAndDay(n400 * 400 + 1 + n100 * 100 + n4 * 4 + n1, n,
                     (n + 50) \div 32,
                     DaysBeforeMonth(n400 * 400 + 1 + n100 * 100 + n4 * 4 + n1,
                                     (n + 50) \div 32))

Cycle4(n400, n100, n4, r4) == YearAndDay(n400, n100, n4, r4 \div 365, r4 % 365)
Cycle100(n400, n100, r100) == Cycle4(n400, n100, r100 \div 1461, r100 % 1461)
Cycle400(n400, r400) == Cycle100(n400, r400 \div 36524, r400 % 36524)

\* date.fromordinal(): CPython's _ord2ymd.
FromOrdinal(ord) == Cycle400((ord - 1) \div 146097, (ord - 1) % 146097)

\* datetime(y, m, d, tzinfo=tz): midnight of that day.
DateTime(y, m, d) ==
    [year |-> y, month |-> m, day |-> d,
     hour |-> 0, minute |-> 0, second |-> 0, microsecond |-> 0]

\* The datetime constructor and replace() raise ValueError on a day the month lacks.
ValidDate(y, m, d) == m \in 1..12 /\ d \in 1..DaysInMonth(y, m)

Ordinal(dt) == ToOrdinal(dt.year, dt.month, dt.day)

\* datetime.weekday()
Weekday(dt) == (Ordinal(dt) + 6) % 7

\* dt with the date ymd and its own wall-clock time.
WithDateOf(dt, ymd) ==
    [dt EXCEPT !.year = ymd.year, !.month = ymd.month, !.day = ymd.day]

\* dt + timedelta(days=k): the wall-clock time is kept.
AddDays(dt, k) == WithDateOf(dt, FromOrdinal(Ordinal(dt) + k))

\* datetime.max: the last day a datetime holds (MAXYEAR is 9999).
MaxDate == DateTime(9999, 12, 31)

\* dt + timedelta(days=days): timedelta raises OverflowError beyond 999999999
\* days, and the sum raises it outside 0001-01-01 .. 9999-12-31.
PlusDays(dt, days) ==
    IF days > 999999999 \/ days < -999999999 THEN OverflowError
    ELSE IF Ordinal(dt) + days > Ordinal(MaxDate) \/ Ordinal(dt) + days < 1 THEN OverflowError
    ELSE AddDays(dt, days)

\* dt + timedelta(weeks=weeks)
PlusWeeks(dt, weeks) ==
    IF weeks > 142857142 \/ weeks < -142857142 THEN OverflowError
    ELSE PlusDays(dt, 7 * weeks)

\* dt at the hour and minute counted from its midnight, the days carried.
Carried(dt, total_hours, total_minutes, moved) ==
    IF moved = OverflowError THEN OverflowError
    ELSE [moved EXCEPT !.hour = total_hours % 24, !.minute = total_minutes % 60]

\* dt + timedelta(hours=hours, minutes=minutes), both at least 0: the second
\* and the microsecond are kept.
PlusTime(dt, hours, minutes) ==
    Carried(dt, dt.hour + hours + (dt.minute + minutes) \div 60, dt.minute + minutes,
            PlusDays(dt, (dt.hour + hours + (dt.minute + minutes) \div 60) \div 24))

\* replace(hour=, minute=, second=, microsecond=) taking the four from src.
WithTimeOf(dt, src) ==
    [dt EXCEPT !.hour = src.hour, !.minute = src.minute,
               !.second = src.second, !.microsecond = src.microsecond]

SecondOfDay(dt) == dt.hour * 3600 + dt.minute * 60 + dt.second

\* Lexicographic order on (day, second of the day, microsecond).
KeyBefore(da, sa, ua, db_, sb, ub) ==
    \/ da < db_
    \/ da = db_ /\ (sa < sb \/ (sa = sb /\ ua < ub))

\* a < b on datetimes of one zone.
Before(a, b) ==
    KeyBefore(Ordinal(a), SecondOfDay(a), a.microsecond,
              Ordinal(b), SecondOfDay(b), b.microsecond)

\* min() of a non-empty list of datetimes.
MinOf(list) ==
    LET S == {list[i] : i \in 1..Len(list)}
    IN  CHOOSE x \in S : \A z \in S : ~Before(z, x)

-----------------------------------------------------------------------------
(* Recurrence rule values: repeat_value is a string, modelled as the list   *)
(* of its tokens.  A run of digits is one token carrying its number.        *)

Num(n) == [t |-> "num", v |-> n]
Tok(s) == [t |-> s, v |-> 0]

\* WEEKDAY_NAMES: the weekday characters, Monday first.
WEEKDAY_NAMES == <<"getsu", "ka", "sui", "moku", "kin", "do", "nichi">>

\* WEEKDAY_MAP / weekday_map: weekday character -> weekday number.
WEEKDAY_MAP(name) == (CHOOSE i \in 1..7 : WEEKDAY_NAMES[i] = name) - 1

IsWeekdayTok(tok) == \E i \in 1..7 : WEEKDAY_NAMES[i] = tok.t

RECURSIVE JoinNths(_)
\* ",".join(str(n) for n in nths)
JoinNths(nths) ==
    IF nths = <<>> THEN <<>>
    ELSE IF Len(nths) = 1 THEN <<Num(nths[1])>>
    ELSE <<Num(nths[1]), Tok(",")>> \o JoinNths(Tail(nths))

\* f"第{nth_str}{wd_name}" and f"第{nth_str}{wd_name}の前日"
FormatNth(nths, wd_name, is_prev_day) ==
    <<Tok("dai")>> \o JoinNths(nths) \o <<Tok(wd_name)>>
        \o (IF is_prev_day THEN <<Tok("zenjitsu")>> ELSE <<>>)

\* str(day)
FormatDay(day) == <<Num(day)>>

RECURSIVE RunLen(_, _)
\* Length of the longest run of digit and comma tokens of s starting at i: [\d,]+
RunLen(s, i) ==
    IF i <= Len(s) /\ s[i].t \in {"num", ","} THEN 1 + RunLen(s, i + 1) ELSE 0

RECURSIVE NumsOf(_)
\* [int(n) for n in group.split(',') if n.strip()]
NumsOf(s) ==
    IF s = <<>> THEN <<>>
    ELSE IF s[1].t = "num" THEN <<s[1].v>> \o NumsOf(Tail(s))
    ELSE NumsOf(Tail(s))

\* re.match(r'第([\d,]+)([月火水木金土日])(の前日)?', repeat_value or ""):
\* None, or the three groups as used by the caller.
NthMatch(repeat_value) ==
    IF repeat_value = NoValue THEN None
    ELSE LET s == repeat_value
             k == RunLen(s, 2)
         IN  IF s[1].t = "dai" /\ k >= 1 /\ Len(s) >= k + 2 /\ IsWeekdayTok(s[k + 2])
             THEN [nths |-> NumsOf(SubSeq(s, 2, k + 1)),
                   wd |-> WEEKDAY_MAP(s[k + 2].t),
                   is_prev_day |-> (Len(s) >= k + 3 /\ s[k + 3].t = "zenjitsu")]
             ELSE None

-----------------------------------------------------------------------------
(* scheduler.py: the next-occurrence calculator.                            *)

\* _nth_weekday_of_month with "if days_ahead <= 0" (the test of the detector's
\* next_weekday_date): a month that starts on the weekday loses a week.
_nth_weekday_of_month_le(year, month, nth, weekday) ==
    LET first == DateTime(year, month, 1)
        d0 == weekday - Weekday(first)
        days_ahead == IF d0 <= 0 THEN d0 + 7 ELSE d0
        first_target == AddDays(first, days_ahead)
        result == PlusWeeks(first_target, nth - 1)
    IN  IF result = OverflowError THEN OverflowError
        ELSE IF result.month # month THEN None ELSE result

\* ReminderScheduler._nth_weekday_of_month: the nth weekday of a month at
\* midnight, None when the month has no such day; the sum of line 255 raises
\* OverflowError past the last day datetime holds.
_nth_weekday_of_month(year, month, nth, weekday) ==
    LET first == DateTime(year, month, 1)
        d0 == weekday - Weekday(first)
        days_ahead == IF d0 < 0 THEN d0 + 7 ELSE d0
        first_target == AddDays(first, days_ahead)
        result == PlusWeeks(first_target, nth - 1)
    IN  IF result = OverflowError THEN OverflowError
        ELSE IF result.month # month THEN None ELSE result

\* next_month / next_year of _calculate_next_time (lines 173-177), also used
\* for the month after next (lines 195-198).
NextMonthOf(y, m) ==
    IF m + 1 > 12 THEN [year |-> y + 1, month |-> 1] ELSE [year |-> y, month |-> m + 1]

\* SearchMonths without the month after next (the detector's two-month search).
SearchMonths_TwoMonths(current) ==
    <<[year |-> current.year, month |-> current.month],
      IF current.month + 1 > 12
      THEN [year |-> current.year + 1, month |-> 1]
      ELSE [year |-> current.year, month |-> current.month + 1]>>

\* search_months: this month, next month, the month after next.
SearchMonths(current) ==
    LET n1 == NextMonthOf(current.year, current.month)
        n2 == NextMonthOf(n1.year, n1.month)
    IN  <<[year |-> current.year, month |-> current.month], n1, n2>>

\* The candidate test of the loop body (lines 203-211): the list with the
\* candidate appended when the target exists and lies after current.
Candidate(current, sy, sm, n, wd, offset) ==
    LET target == _nth_weekday_of_month(sy, sm, n, wd)
    IN  IF target = None THEN <<>>
        ELSE IF target = OverflowError THEN <<OverflowError>>
        ELSE LET result == WithTimeOf(AddDays(target, offset), current)
             IN  IF Before(current, result) THEN <<result>> ELSE <<>>

RECURSIVE CandidatesOfMonth(_, _, _, _, _, _)
\* for n in nths: ... (the inner loop)
CandidatesOfMonth(current, sy, sm, nths, wd, offset) ==
    IF nths = <<>> THEN <<>>
    ELSE Candidate(current, sy, sm, nths[1], wd, offset)
            \o CandidatesOfMonth(current, sy, sm, Tail(nths), wd, offset)

RECURSIVE Candidates(_, _, _, _, _)
\* for sy, sm in search_months: ... (the outer loop)
Candidates(current, months, nths, wd, offset) ==
    IF months = <<>> THEN <<>>
    ELSE CandidatesOfMonth(current, months[1].year, months[1].month, nths, wd, offset)
            \o Candidates(current, Tail(months), nths, wd, offset)

\* The ordinal-weekday branch (lines 181-215).
NextNthWeekday(current, m) ==
    LET offset == IF m.is_prev_day THEN -1 ELSE 0
        candidates == Candidates(current, SearchMonths(current), m.nths, m.wd, offset)
    IN  IF \E i \in 1..Len(candidates) : candidates[i] = OverflowError THEN OverflowError
        ELSE IF candidates # <<>> THEN MinOf(candidates) ELSE None

\* NextSameDay without the "- timedelta(days=1)": the first day of the month
\* after next instead of the last day of next month.
NextSameDay_NoMinusOne(current) ==
    LET nm == IF current.month + 1 > 12
              THEN [year |-> current.year + 1, month |-> 1]
              ELSE [year |-> current.year, month |-> current.month + 1]
    IN  IF ValidDate(nm.year, nm.month, current.day)
        THEN [current EXCEPT !.year = nm.year, !.month = nm.month]
        ELSE LET nn == IF nm.month = 12
                       THEN [year |-> nm.year + 1, month |-> 1]
                       ELSE [year |-> nm.year, month |-> nm.month + 1]
             IN  WithTimeOf(DateTime(nn.year, nn.month, 1), current)

\* NextSameDay whose fallback takes the day before the first of next month,
\* which is the last day of this month.
NextSameDay_ThisMonthEnd(current) ==
    LET nm == NextMonthOf(current.year, current.month)
    IN  IF ValidDate(nm.year, nm.month, current.day)
        THEN [current EXCEPT !.year = nm.year, !.month = nm.month]
        ELSE WithTimeOf(AddDays(DateTime(nm.year, nm.month, 1), -1), current)

\* The same-day-next-month branch (lines 219-234): replace(year, month), and
\* on ValueError the last day of next month.
NextSameDay(current) ==
    LET nm == NextMonthOf(current.year, current.month)
    IN  IF ValidDate(nm.year, nm.month, current.day)
        THEN [current EXCEPT !.year = nm.year, !.month = nm.month]
        ELSE LET nn == IF nm.month = 12
                       THEN [year |-> nm.year + 1, month |-> 1]
                       ELSE [year |-> nm.year, month |-> nm.month + 1]
                 last_day == AddDays(DateTime(nn.year, nn.month, 1), -1)
             IN  WithTimeOf(last_day, current)

RECURSIVE SkipWeekend_SundayOnly(_)
\* SkipWeekend with the test weekday() >= 6: Saturdays are kept.
SkipWeekend_SundayOnly(next_day) ==
    IF Weekday(next_day) >= 6 THEN SkipWeekend_SundayOnly(AddDays(next_day, 1))
    ELSE next_day

RECURSIVE SkipWeekend(_)
\* while next_day.weekday() >= 5: next_day += timedelta(days=1)
SkipWeekend(next_day) ==
    IF Weekday(next_day) >= 5 THEN SkipWeekend(AddDays(next_day, 1)) ELSE next_day

\* _calculate_next_time with the biweekly branch adding timedelta(weeks=1).
_calculate_next_time_biweekly1(current, repeat_type, repeat_value) ==
    IF repeat_type = "daily" THEN AddDays(current, 1)
    ELSE IF repeat_type = "weekly" THEN AddDays(current, 7)
    ELSE IF repeat_type = "monthly" THEN
        LET nth_match == NthMatch(repeat_value)
        IN  IF nth_match # None THEN NextNthWeekday(current, nth_match)
            ELSE NextSameDay(current)
    ELSE IF repeat_type = "biweekly" THEN AddDays(current, 7)
    ELSE IF repeat_type = "weekdays" THEN SkipWeekend(AddDays(current, 1))
    ELSE None

\* ReminderScheduler._calculate_next_time
_calculate_next_time(current, repeat_type, repeat_value) ==
    IF repeat_type = "daily" THEN AddDays(current, 1)
    ELSE IF repeat_type = "weekly" THEN AddDays(current, 7)
    ELSE IF repeat_type = "monthly" THEN
        LET nth_match == NthMatch(repeat_value)
        IN  IF nth_match # None THEN NextNthWeekday(current, nth_match)
            ELSE NextSameDay(current)
    ELSE IF repeat_type = "biweekly" THEN AddDays(current, 14)
    ELSE IF repeat_type = "weekdays" THEN SkipWeekend(AddDays(current, 1))
    ELSE None

-----------------------------------------------------------------------------
(* llm_parser.py: the recurrence detector.                                  *)
(*                                                                          *)
(* A phrase is the record of what the detector's regular expressions find   *)
(* in it:                                                                   *)
(*   cadence  the recurrence expression: "maitsuki_dai_zenjitsu" 毎月第N曜の前日,*)
(*            "maitsuki_dai" 毎月第N曜, "maitsuki_nichi" 毎月N日,             *)
(*            "kakushu" 隔週X曜, "maishu_youbi" 毎週X曜, "maishu" 毎週,       *)
(*            "maiasa" 毎朝, "maiban" 毎晩, "maiyuu" 毎夕(方), "mainichi" 毎日,*)
(*            "heijitsu" 平日, "none"                                        *)
(*   nths     the numbers of 第N(,N), in order                               *)
(*   wd_name  the weekday character                                         *)
(*   day      the number of N日                                              *)
(*   mark, h  the hour expression of time_text: "gogo" 午後H時, "gozen"       *)
(*            午前H時, "ji" H時, "none"                                       *)
(*   word     the time-of-day word of time_text outside the cadence         *)
(*            expression: "asa" 朝, "shogo" 正午, "ohiru" お昼, "hiru" 昼,    *)
(*            "yugata" 夕方, "shinya" 深夜, "yoru" 夜, "none"                 *)
(*   min, m   what follows H時: "han" 半, "fun" M分, "none"                   *)

\* extract_hour(t, default)
extract_hour(t, default) ==
    IF t.mark = "gogo" THEN (IF t.h < 12 THEN t.h + 12 ELSE t.h)
    ELSE IF t.mark = "gozen" THEN t.h
    ELSE IF t.mark = "ji" THEN
        LET is_pm_context == t.word \in {"ohiru", "hiru", "yugata", "yoru", "shinya"}
            is_am_context == t.word = "asa"
        IN  IF is_pm_context /\ ~is_am_context /\ 1 <= t.h /\ t.h <= 11
            THEN t.h + 12 ELSE t.h
    ELSE IF t.word = "asa" THEN 8
    ELSE IF t.word \in {"shogo", "ohiru"} THEN 12
    ELSE IF t.word = "hiru" THEN 12
    ELSE IF t.word = "yugata" THEN 17
    ELSE IF t.word = "shinya" THEN 23
    ELSE IF t.word = "yoru" THEN 20
    ELSE default

\* extract_minute(t)
extract_minute(t) ==
    IF t.mark # "none" /\ t.min = "han" THEN 30
    ELSE IF t.mark # "none" /\ t.min = "fun" THEN t.m
    ELSE 0

\* make_dt(base_date, hour, minute): replace() raises ValueError on an hour
\* outside 0..23 or a minute outside 0..59.
make_dt(base_date, hour, minute) ==
    IF hour \in 0..23 /\ minute \in 0..59
    THEN [base_date EXCEPT !.hour = hour, !.minute = minute,
                           !.second = 0, !.microsecond = 0]
    ELSE ValueError

\* next_weekday_date staying on today when today is that weekday.
next_weekday_date_Today(n, target_wd) ==
    LET d0 == target_wd - Weekday(n)
        days_ahead == IF d0 < 0 THEN d0 + 7 ELSE d0
    IN  AddDays(n, days_ahead)

\* next_weekday_date(target_wd): the next day of that weekday, a week on
\* when today is that weekday.
next_weekday_date(n, target_wd) ==
    LET d0 == target_wd - Weekday(n)
        days_ahead == IF d0 <= 0 THEN d0 + 7 ELSE d0
    IN  AddDays(n, days_ahead)

\* nth_weekday_of_month of parse_repeat_pattern: the sum of line 135 raises
\* OverflowError when the ordinal carries it past datetime.max.
nth_weekday_of_month(year, month, nth, weekday) ==
    LET first == DateTime(year, month, 1)
        d0 == weekday - Weekday(first)
        days_ahead == IF d0 < 0 THEN d0 + 7 ELSE d0
        first_target == AddDays(first, days_ahead)
        result == PlusWeeks(first_target, nth - 1)
    IN  IF result = OverflowError THEN OverflowError
        ELSE IF result.month # month THEN None ELSE result

\* next_month_year(y, m)
next_month_year(y, m) ==
    IF m + 1 > 12 THEN [year |-> y + 1, month |-> 1] ELSE [year |-> y, month |-> m + 1]

\* The loop body of find_next_nth_weekday (lines 156-160): the candidate
\* list, or the exception nth_weekday_of_month or make_dt raises.
DetectCandidate(n, y, m_val, nth, weekday, offset_days, hour, minute) ==
    LET target == nth_weekday_of_month(y, m_val, nth, weekday)
    IN  IF target = None THEN <<>>
        ELSE IF target = OverflowError THEN <<OverflowError>>
        ELSE LET dt == make_dt(AddDays(target, offset_days), hour, minute)
             IN  IF dt = ValueError THEN <<ValueError>>
                 ELSE IF Before(n, dt) THEN <<dt>> ELSE <<>>

RECURSIVE DetectCandidatesOfMonth(_, _, _, _, _, _, _, _)
\* for n in nths: ...
DetectCandidatesOfMonth(n, y, m_val, nths, weekday, offset_days, hour, minute) ==
    IF nths = <<>> THEN <<>>
    ELSE DetectCandidate(n, y, m_val, nths[1], weekday, offset_days, hour, minute)
            \o DetectCandidatesOfMonth(n, y, m_val, Tail(nths), weekday, offset_days, hour, minute)

\* find_next_nth_weekday(nths, weekday, offset_days): this month and next.
find_next_nth_weekday(n, t, nths, weekday, offset_days) ==
    LET hour == extract_hour(t, 9)
        minute == extract_minute(t)
        nm == next_month_year(n.year, n.month)
        candidates ==
            DetectCandidatesOfMonth(n, n.year, n.month, nths, weekday, offset_days, hour, minute)
              \o DetectCandidatesOfMonth(n, nm.year, nm.month, nths, weekday, offset_days, hour, minute)
    IN  IF \E i \in 1..Len(candidates) : Raised(candidates[i])
        THEN candidates[CHOOSE i \in 1..Len(candidates) :
                           /\ Raised(candidates[i])
                           /\ \A j \in 1..(i - 1) : ~Raised(candidates[j])]
        ELSE IF candidates # <<>> THEN MinOf(candidates)
        ELSE None

\* The dict parse_repeat_pattern returns; an exception and None pass through.
Detected(repeat_type, repeat_value, remind_at) ==
    IF Raised(remind_at) THEN remind_at
    ELSE IF remind_at = None THEN None
    ELSE [repeat_type |-> repeat_type, repeat_value |-> repeat_value, remind_at |-> remind_at]

\* The 毎月第N曜(の前日) branches (lines 165-187).
DetectNth(t, n, is_prev_day) ==
    LET target_wd == WEEKDAY_MAP(t.wd_name)
        remind_at == find_next_nth_weekday(n, t, t.nths, target_wd, IF is_prev_day THEN -1 ELSE 0)
    IN  Detected("monthly", FormatNth(t.nths, t.wd_name, is_prev_day), remind_at)

\* DetectMonthlyDay falling back to the last day of the current month when
\* the day is missing from it, instead of moving to the next month.
DetectMonthlyDay_ClampThisMonth(t, n) ==
    LET day == t.day
        hour == extract_hour(t, 9)
        minute == extract_minute(t)
        nm == next_month_year(n.year, n.month)
        this_month == IF ValidDate(n.year, n.month, day)
                      THEN make_dt([n EXCEPT !.day = day], hour, minute)
                      ELSE ValueError
        clamped == make_dt([n EXCEPT !.day = DaysInMonth(n.year, n.month)], hour, minute)
        next_month == IF ValidDate(nm.year, nm.month, day)
                      THEN make_dt(DateTime(nm.year, nm.month, day), hour, minute)
                      ELSE ValueError
        remind_at == IF this_month = ValueError THEN clamped
                     ELSE IF ~Before(n, this_month) THEN next_month
                     ELSE this_month
    IN  Detected("monthly", FormatDay(day), remind_at)

\* The 毎月X日 branch (lines 189-215).
DetectMonthlyDay(t, n) ==
    LET day == t.day
        hour == extract_hour(t, 9)
        minute == extract_minute(t)
        nm == next_month_year(n.year, n.month)
        this_month == IF ValidDate(n.year, n.month, day)
                      THEN make_dt([n EXCEPT !.day = day], hour, minute)
                      ELSE ValueError
        next_month == IF ValidDate(nm.year, nm.month, day)
                      THEN make_dt(DateTime(nm.year, nm.month, day), hour, minute)
                      ELSE ValueError
        remind_at == IF this_month = ValueError THEN next_month
                     ELSE IF ~Before(n, this_month) THEN next_month
                     ELSE this_month
    IN  Detected("monthly", FormatDay(day), remind_at)

\* The 隔週X曜, 毎週X曜 and 毎週 branches (lines 217-246).
DetectWeekly(t, n, repeat_type, wd_name) ==
    LET target_wd == WEEKDAY_MAP(wd_name)
        hour == extract_hour(t, 9)
        minute == extract_minute(t)
        target_date == next_weekday_date(n, target_wd)
        remind_at == make_dt(target_date, hour, minute)
    IN  Detected(repeat_type, <<Tok(wd_name)>>, remind_at)

\* DetectDaily comparing with < where the code compares with <=.
DetectDaily_StrictCompare(t, n, default) ==
    LET hour == extract_hour(t, default)
        minute == extract_minute(t)
        today == make_dt(n, hour, minute)
        remind_at == IF today = ValueError THEN ValueError
                     ELSE IF Before(today, n) THEN AddDays(today, 1)
                     ELSE today
    IN  Detected("daily", NoValue, remind_at)

\* The 毎朝, 毎晩, 毎夕(方) and 毎日 branches (lines 248-282).
DetectDaily(t, n, default) ==
    LET hour == extract_hour(t, default)
        minute == extract_minute(t)
        today == make_dt(n, hour, minute)
        remind_at == IF today = ValueError THEN ValueError
                     ELSE IF ~Before(n, today) THEN AddDays(today, 1)
                     ELSE today
    IN  Detected("daily", NoValue, remind_at)

\* The 平日 branch (lines 284-294).
DetectWeekdays(t, n) ==
    LET hour == extract_hour(t, 9)
        minute == extract_minute(t)
        today == make_dt(n, hour, minute)
        remind_at == IF today = ValueError THEN ValueError
                     ELSE IF ~Before(n, today) \/ Weekday(n) >= 5
                          THEN SkipWeekend(AddDays(today, 1))
                          ELSE today
    IN  Detected("weekdays", NoValue, remind_at)

\* parse_repeat_pattern(user_input, now, tz): the branches in source order.
\* The 毎月第N曜 pattern also matches a phrase with の前日, and the bare 毎週
\* pattern also matches 毎週X曜.
parse_repeat_pattern(t, n) ==
    IF t.cadence = "maitsuki_dai_zenjitsu" THEN DetectNth(t, n, TRUE)
    ELSE IF t.cadence \in {"maitsuki_dai_zenjitsu", "maitsuki_dai"} THEN DetectNth(t, n, FALSE)
    ELSE IF t.cadence = "maitsuki_nichi" THEN DetectMonthlyDay(t, n)
    ELSE IF t.cadence = "kakushu" THEN DetectWeekly(t, n, "biweekly", t.wd_name)
    ELSE IF t.cadence = "maishu_youbi" THEN DetectWeekly(t, n, "weekly", t.wd_name)
    ELSE IF t.cadence \in {"maishu_youbi", "maishu"}
        THEN DetectWeekly(t, n, "weekly", WEEKDAY_NAMES[Weekday(n) + 1])
    ELSE IF t.cadence = "maiasa" THEN DetectDaily(t, n, 8)
    ELSE IF t.cadence = "maiban" THEN DetectDaily(t, n, 20)
    ELSE IF t.cadence = "maiyuu" THEN DetectDaily(t, n, 17)
    ELSE IF t.cadence = "mainichi" THEN DetectDaily(t, n, 9)
    ELSE IF t.cadence = "heijitsu" THEN DetectWeekdays(t, n)
    ELSE None

-----------------------------------------------------------------------------
(* Inputs of the calculator and of the detector.                            *)

\* The calendar window the inputs are drawn from starts on December 1st of
\* StartYear and ends on March 31st two years later: it holds a leap and a
\* common February and two December -> January rollovers.
StartYear == 2023
\* Ordinals run from 1 to MaxNth in the ordinal-weekday rules drawn.
MaxNth == 5
\* An ordinal whose weeks carry the date past the year 9999: 毎月第500000火曜
LargeNth == 500000

FirstOrdinal == ToOrdinal(StartYear, 12, 1)
LastOrdinal == ToOrdinal(StartYear + 2, 3, 31)
InWindow(dt) == Ordinal(dt) \in FirstOrdinal..LastOrdinal

\* Wall-clock time of the occurrences drawn: every field is non-zero.
TimesOfDay ==
    { [hour |-> 18, minute |-> 30, second |-> 15, microsecond |-> 250] }

At(ymd, tod) ==
    [year |-> ymd.year, month |-> ymd.month, day |-> ymd.day,
     hour |-> tod.hour, minute |-> tod.minute,
     second |-> tod.second, microsecond |-> tod.microsecond]

Occurrences ==
    { At(FromOrdinal(o), tod) : o \in FirstOrdinal..LastOrdinal, tod \in TimesOfDay }

\* Lists of ordinals: every single ordinal, and some lists of two.
NthLists ==
    { <<n>> : n \in 1..MaxNth }
        \cup { <<n, n + 2>> : n \in 1..(MaxNth - 2) }
        \cup { <<MaxNth, 1>> }

NthValues ==
    { FormatNth(nths, WEEKDAY_NAMES[w], p) : nths \in NthLists, w \in 1..7, p \in BOOLEAN }

\* The ordinal-weekday values drawn, each with the list, the weekday number
\* and the marker it was written from.
NthRuleIndex ==
    { [value |-> FormatNth(nths, WEEKDAY_NAMES[w], p), nths |-> nths, wd |-> w - 1, prev |-> p] :
        nths \in NthLists, w \in 1..7, p \in BOOLEAN }

DayValues == { FormatDay(d) : d \in {1, 29, 30, 31} }

WeekdayValues == { <<Tok(WEEKDAY_NAMES[w])>> : w \in 1..7 }

Rule(type, value) == [repeat_type |-> type, repeat_value |-> value]

\* The rules a stored reminder can carry: those the detector writes, a
\* monthly rule without a value, and a kind the calculator does not know.
Rules ==
    { Rule("daily", v) : v \in {NoValue, <<Tok("kin")>>} }
        \cup { Rule(t, v) : t \in {"weekly", "biweekly"}, v \in WeekdayValues }
        \cup { Rule("weekdays", NoValue) }
        \cup { Rule("monthly", v) : v \in DayValues \cup NthValues \cup {NoValue} }
        \cup { Rule("yearly", NoValue) }

-----------------------------------------------------------------------------
(* The calculator on its own: a fired occurrence and its rule are drawn,    *)
(* _calculate_next_time is applied, and the result fires in its turn.       *)

IdleDetector ==
    /\ phrase = None /\ now = None /\ parsed = None /\ dphase = "idle"
IdleResolver ==
    user_input = <<>> /\ instant = None /\ answer = None /\ stage = "idle" /\ calls = <<>>
IdleScheduler ==
    /\ db = <<>> /\ clock = None /\ boot = "idle" /\ task = <<>> /\ log = <<>>
    /\ sqlite_sequence = 0
IdleMain ==
    /\ retry_count = 0 /\ last_crash = 0 /\ wall = 0 /\ mpc = "idle" /\ mlog = <<>>

AdvanceInit ==
    /\ cur \in Occurrences
    /\ rule \in Rules
    /\ nxt = None
    /\ aphase = "input"
    /\ IdleDetector /\ IdleScheduler /\ IdleResolver /\ IdleMain

\* handle_after_send line 149: next_time = self._calculate_next_time(...)
Advance ==
    /\ aphase = "input"
    /\ nxt' = _calculate_next_time(cur, rule.repeat_type, rule.repeat_value)
    /\ aphase' = "done"
    /\ UNCHANGED <<cur, rule, dvars, svars, rvars, mvars>>

\* The returned occurrence is stored (line 152) and is the one that fires next.
Refire ==
    /\ aphase = "done"
    /\ nxt # None /\ ~Raised(nxt)
    /\ InWindow(nxt)
    /\ cur' = nxt
    /\ nxt' = None
    /\ aphase' = "input"
    /\ UNCHANGED <<rule, dvars, svars, rvars, mvars>>

AdvanceNext == Advance \/ Refire

SpecAdvance == AdvanceInit /\ [][AdvanceNext]_vars

-----------------------------------------------------------------------------
(* The detector on its own: a phrase and a reference instant are drawn and  *)
(* parse_repeat_pattern is applied.                                         *)

\* The reference instants drawn run from December 1st of StartYear to April
\* 30th of the next year, at a time equal to a stated time and at one just
\* past another.
DetectLastOrdinal == ToOrdinal(StartYear + 1, 4, 30)

NowTimes ==
    { [hour |-> 9, minute |-> 0, second |-> 0, microsecond |-> 0],
      [hour |-> 21, minute |-> 30, second |-> 0, microsecond |-> 1] }

Nows ==
    { At(FromOrdinal(o), tod) : o \in FirstOrdinal..DetectLastOrdinal, tod \in NowTimes }

TimeExpr(mark, h, word, min, m) == [mark |-> mark, h |-> h, word |-> word, min |-> min, m |-> m]

\* No time, 9時, 夜9時半, 午後6時45分, 25時.
NoTime == TimeExpr("none", 0, "none", "none", 0)
TimeExprs ==
    { NoTime,
      TimeExpr("ji", 9, "none", "none", 0),
      TimeExpr("ji", 9, "yoru", "han", 0),
      TimeExpr("gogo", 6, "none", "fun", 45),
      TimeExpr("ji", 25, "none", "none", 0) }

Phrase(cadence, nths, wd_name, day, te) ==
    [cadence |-> cadence, nths |-> nths, wd_name |-> wd_name, day |-> day,
     mark |-> te.mark, h |-> te.h, word |-> te.word, min |-> te.min, m |-> te.m]

\* Lists of ordinals in the phrases drawn: every single ordinal and one pair.
DetectNthLists == { <<n>> : n \in 1..MaxNth } \cup { <<1, 3>>, <<LargeNth>>, <<1, LargeNth>> }

Phrases ==
    { Phrase(c, nths, WEEKDAY_NAMES[w], 0, te) :
        c \in {"maitsuki_dai_zenjitsu", "maitsuki_dai"}, nths \in DetectNthLists,
        w \in 1..7, te \in {NoTime, TimeExpr("ji", 9, "yoru", "han", 0)} }
    \cup { Phrase("maitsuki_nichi", <<>>, "getsu", d, te) :
            d \in {1, 15, 29, 30, 31, 32}, te \in TimeExprs }
    \cup { Phrase(c, <<>>, WEEKDAY_NAMES[w], 0, te) :
            c \in {"kakushu", "maishu_youbi"}, w \in 1..7, te \in TimeExprs }
    \cup { Phrase(c, <<>>, "getsu", 0, te) :
            c \in {"maishu", "maiasa", "maiban", "maiyuu", "mainichi", "heijitsu", "none"},
            te \in TimeExprs }

IdleAdvance ==
    /\ cur = None /\ rule = None /\ nxt = None /\ aphase = "idle"

DetectInit ==
    /\ phrase \in Phrases
    /\ now \in Nows
    /\ parsed = None
    /\ dphase = "input"
    /\ IdleAdvance /\ IdleScheduler /\ IdleResolver /\ IdleMain

\* parse_reminder_input line 743: repeat_result = parse_repeat_pattern(...)
Detect ==
    /\ dphase = "input"
    /\ parsed' = parse_repeat_pattern(phrase, now)
    /\ dphase' = "done"
    /\ UNCHANGED <<phrase, now, avars, svars, rvars, mvars>>

DetectNext == Detect

SpecDetect == DetectInit /\ [][DetectNext]_vars

-----------------------------------------------------------------------------
(* The reminders table and the functions of database.py that the scheduler  *)
(* and the snooze buttons call.  A row keeps the columns the scheduler      *)
(* reads; remind_at is compared as the ISO string SQLite compares, which    *)
(* for one fixed offset orders as the instants do.                          *)

\* A NULL repeat_type (falsy, like "none").
NoRepeat == ""

Row(user_id, remind_at, repeat_type, repeat_value, is_active) ==
    [user_id |-> user_id, remind_at |-> remind_at, repeat_type |-> repeat_type,
     repeat_value |-> repeat_value, is_active |-> is_active]

\* IsDue without the condition on is_active.
IsDue_AnyState(d, id, at) == ~Before(at, d[id].remind_at)

\* WHERE is_active = 1 AND remind_at <= ?
IsDue(d, id, at) == d[id].is_active = 1 /\ ~Before(at, d[id].remind_at)

\* ORDER BY remind_at (rows of equal remind_at in rowid order).
RECURSIVE OrderByRemindAt(_, _)
OrderByRemindAt(d, ids) ==
    IF ids = {} THEN <<>>
    ELSE LET first == CHOOSE i \in ids : \A j \in ids \ {i} :
                          \/ Before(d[i].remind_at, d[j].remind_at)
                          \/ (d[i].remind_at = d[j].remind_at /\ i < j)
         IN  <<first>> \o OrderByRemindAt(d, ids \ {first})

get_due_reminders(d, at) ==
    OrderByRemindAt(d, { id \in DOMAIN d : IsDue(d, id, at) })

deactivate_reminder(d, id) ==
    [i \in DOMAIN d |-> IF i = id THEN [d[i] EXCEPT !.is_active = 0] ELSE d[i]]

update_reminder_time(d, id, new_remind_at) ==
    [db |-> [i \in DOMAIN d |-> IF i = id THEN [d[i] EXCEPT !.remind_at = new_remind_at]
                                ELSE d[i]],
     success |-> id \in DOMAIN d]

\* UPDATE reminders SET remind_at = ? WHERE id = ? (is_active is left alone).
snooze_reminder_KeepsState(d, id, new_remind_at) ==
    [db |-> [i \in DOMAIN d |->
                IF i = id THEN [d[i] EXCEPT !.remind_at = new_remind_at] ELSE d[i]],
     success |-> id \in DOMAIN d]

snooze_reminder(d, id, new_remind_at) ==
    [db |-> [i \in DOMAIN d |->
                IF i = id THEN [d[i] EXCEPT !.remind_at = new_remind_at, !.is_active = 1]
                ELSE d[i]],
     success |-> id \in DOMAIN d]

\* datetime + timedelta(seconds=s), 0 <= s, on the wall clock of the one zone.
AddSeconds(dt, s) ==
    LET total == SecondOfDay(dt) + s
        moved == AddDays(dt, total \div 86400)
        rest == total % 86400
    IN  [moved EXCEPT !.hour = rest \div 3600, !.minute = (rest % 3600) \div 60,
                      !.second = rest % 60]

-----------------------------------------------------------------------------
(* ReminderScheduler: check_and_send_reminders, send_reminder and           *)
(* handle_after_send.  Each function returns the table it leaves and the    *)
(* storage and calculator calls it made, in order.                          *)

MAX_CONCURRENT_SENDS == 3

\* What sending can meet: the message goes out; the channel cannot be
\* fetched (NotFound, Forbidden, HTTPException); channel.send raises
\* Forbidden; channel.send raises anything else.
SendOutcomes == {"ok", "fetch_failed", "forbidden", "error"}

IsRecurring(repeat_type) == repeat_type # NoRepeat /\ repeat_type # "none"

send_reminder(d, id, outcome) ==
    IF outcome \in {"fetch_failed", "forbidden"}
    THEN [db |-> deactivate_reminder(d, id), calls |-> <<"deactivate_reminder">>,
          raised |-> FALSE]
    ELSE [db |-> d, calls |-> <<>>, raised |-> outcome = "error"]

\* handle_after_send from `if next_time:` on (lines 151-160).
update_or_deactivate(d, id, next_time) ==
    IF Raised(next_time)
    THEN [db |-> d, calls |-> <<"_calculate_next_time">>, next_time |-> next_time]
    ELSE IF next_time # None
    THEN IF update_reminder_time(d, id, next_time).success
         THEN [db |-> update_reminder_time(d, id, next_time).db,
               calls |-> <<"_calculate_next_time", "update_reminder_time">>,
               next_time |-> next_time]
         ELSE [db |-> deactivate_reminder(d, id),
               calls |-> <<"_calculate_next_time", "update_reminder_time",
                           "deactivate_reminder">>,
               next_time |-> next_time]
    ELSE [db |-> deactivate_reminder(d, id),
          calls |-> <<"_calculate_next_time", "deactivate_reminder">>,
          next_time |-> None]

\* reminder is the row as the check read it; d is the table now.  An
\* exception of _calculate_next_time (line 149) leaves handle_after_send
\* before any storage call: next_time is then the exception raised and the
\* table is as it was.  The stored
\* remind_at is an aware ISO string of the one zone, which fromisoformat and
\* astimezone read back as the instant that was stored.
handle_after_send(d, id, reminder) ==
    IF ~IsRecurring(reminder.repeat_type)
    THEN [db |-> deactivate_reminder(d, id), calls |-> <<"deactivate_reminder">>,
          next_time |-> None]
    ELSE update_or_deactivate(d, id,
             _calculate_next_time(reminder.remind_at, reminder.repeat_type,
                                  reminder.repeat_value))

-----------------------------------------------------------------------------
(* The scheduler at work: the bot starts with stored reminders, start()     *)
(* runs a check at once and the interval job runs further checks; every due *)
(* reminder gets a _process_one task; users press the buttons of delivered  *)
(* messages; time passes.                                                   *)

MaxTasks == 2
MaxSnoozes == 1

\* The ids of the stored reminders.
Ids == {1, 2}

\* The instant the bot starts at: Tuesday 2023-01-31, 09:00.
BootTime ==
    [year |-> 2023, month |-> 1, day |-> 31, hour |-> 9, minute |-> 0,
     second |-> 0, microsecond |-> 0]

\* The reminders in storage when the bot starts, as the detector made them
\* on Monday 2023-01-30 at 09:00.  Reminder 1 is a single-shot one
\* (repeat_type NULL or "none"), or
\* "every day 9:00", or "every month, 5th Tuesday" (first occurrence
\* 2023-01-31 09:00, the one 5th Tuesday of January to March 2023), or a
\* row with a repeat_type the calculator does not know ("yearly");
\* reminder 2 is "every Tuesday", or "every month, day 31, 18:45".
StoredReminders ==
    << { Row("u1", BootTime, NoRepeat, NoValue, 1),
         Row("u1", BootTime, "none", NoValue, 1),
         Row("u1", BootTime, "daily", NoValue, 1),
         Row("u1", BootTime, "monthly", FormatNth(<<5>>, "ka", FALSE), 1),
         Row("u1", BootTime, "yearly", NoValue, 1) },
       { Row("u2", BootTime, "weekly", <<Tok("ka")>>, 1),
         Row("u2", [BootTime EXCEPT !.hour = 18, !.minute = 45], "monthly",
             FormatDay(31), 1) } >>

\* The snooze buttons pressed in the model, in minutes: the shortest and the
\* longest of SnoozeView (lines 284-298).
SnoozeMinutes == {5, 1440}

Task(check, id, reminder) ==
    [check |-> check, id |-> id, reminder |-> reminder, pc |-> "queued",
     outcome |-> "", delivered |-> FALSE, calls |-> <<>>]

Event(op, id, before, after) == [op |-> op, id |-> id, before |-> before, after |-> after]

RECURSIVE TasksOf(_, _, _)
TasksOf(check, d, due) ==
    IF due = <<>> THEN <<>>
    ELSE <<Task(check, Head(due), d[Head(due)])>> \o TasksOf(check, d, Tail(due))

RECURSIVE EventsOf(_, _, _)
EventsOf(op, d, due) ==
    IF due = <<>> THEN <<>>
    ELSE <<Event(op, Head(due), d[Head(due)], d[Head(due)])>> \o EventsOf(op, d, Tail(due))

\* Tasks inside `async with semaphore`: sending or post-processing.
Inside == { k \in 1..Len(task) : task[k].pc \in {"sending", "sent"} }

\* Tasks holding the semaphore of one check: line 67 makes a semaphore in
\* every call of check_and_send_reminders.  Two runs of the interval job do
\* not overlap, so the tasks of the job in flight are those of one call.
InsideOf(check) == { k \in Inside : task[k].check = check }

\* The message of reminder id went out with its buttons: channel.send
\* returned in some task, whatever became of the task afterwards.
Delivered(id) == \E k \in 1..Len(task) : task[k].id = id /\ task[k].delivered

\* The tasks of a check that have not ended.
Unfinished(check) ==
    { k \in 1..Len(task) : task[k].check = check /\ task[k].pc \notin {"done", "cancelled"} }

\* Snooze buttons pressed so far.
Snoozes == Cardinality({ i \in 1..Len(log) : log[i].op = "snooze" })

\* Reminders that are active and not due yet.
Pending == { id \in Ids : db[id].is_active = 1 /\ Before(clock, db[id].remind_at) }

SchedInit ==
    /\ db \in { <<first, second>> : first \in StoredReminders[1],
                                     second \in StoredReminders[2] }
    /\ sqlite_sequence = Len(db)
    /\ clock = BootTime
    /\ boot = "starting"
    /\ task = <<>>
    /\ log = <<>>
    /\ IdleAdvance /\ IdleDetector /\ IdleResolver /\ IdleMain

\* check_and_send_reminders up to the creation of the tasks (lines 57-83).
check_and_send_reminders(check) ==
    LET due_reminders == get_due_reminders(db, clock)
    IN  /\ Len(task) + Len(due_reminders) <= MaxTasks
        /\ task' = task \o TasksOf(check, db, due_reminders)
        /\ log' = log \o EventsOf("due", db, due_reminders)

\* start(), line 47: the check at start-up.
StartupCheck ==
    /\ boot = "starting"
    /\ boot' = "running"
    /\ check_and_send_reminders("startup")
    /\ UNCHANGED <<db, clock, sqlite_sequence, avars, dvars, rvars, mvars>>

\* The interval job (lines 37-42); APScheduler runs one instance at a time.
JobCheck ==
    /\ boot = "running"
    /\ Unfinished("job") = {}
    /\ get_due_reminders(db, clock) # <<>>
    /\ check_and_send_reminders("job")
    /\ UNCHANGED <<db, clock, boot, sqlite_sequence, avars, dvars, rvars, mvars>>

\* The queued tasks the semaphore of their check has a slot for.
\* asyncio.Semaphore wakes its waiters in the order they arrived, which is
\* the order gather started them.
Admitted ==
    { k \in 1..Len(task) :
        /\ task[k].pc = "queued"
        /\ \A j \in 1..(k - 1) : task[j].check = task[k].check => task[j].pc # "queued"
        /\ Cardinality(InsideOf(task[k].check)) < MAX_CONCURRENT_SENDS }

\* No queued task has a slot free in the semaphore of its check.
NoneAdmitted ==
    \A check \in {"startup", "job"} :
        (\E k \in 1..Len(task) : task[k].check = check /\ task[k].pc = "queued")
            => Cardinality(InsideOf(check)) >= MAX_CONCURRENT_SENDS

\* _process_one, line 70: async with semaphore.  acquire() returns without
\* suspending while a slot is free, and release() wakes the first waiter, so
\* an admitted task enters before an await of another task returns (the two
\* orders end in the same state): the next-state relations let the awaits
\* return when NoneAdmitted holds.
Acquire(k) ==
    /\ k \in Admitted
    /\ task' = [task EXCEPT ![k].pc = "sending"]
    /\ UNCHANGED <<db, clock, boot, log, sqlite_sequence, avars, dvars, rvars, mvars>>

\* _process_one, line 72: await self.send_reminder(reminder); an exception
\* leaves through the handler of lines 74-80, which deactivates.
SendReminder(k, outcome) ==
    /\ task[k].pc = "sending"
    /\ \E sent \in {send_reminder(db, task[k].id, outcome)} :
           IF sent.raised
           THEN /\ db' = deactivate_reminder(sent.db, task[k].id)
                /\ task' = [task EXCEPT ![k].pc = "done", ![k].outcome = outcome,
                                        ![k].calls = sent.calls \o <<"deactivate_reminder">>]
           ELSE /\ db' = sent.db
                /\ task' = [task EXCEPT ![k].pc = "sent", ![k].outcome = outcome,
                                        ![k].delivered = (outcome = "ok"),
                                        ![k].calls = sent.calls]
    /\ UNCHANGED <<clock, boot, log, sqlite_sequence, avars, dvars, rvars, mvars>>

\* _process_one, line 73: await self.handle_after_send(reminder).  When
\* _calculate_next_time raises, the handler of lines 74-78 deactivates the
\* reminder; the storage calls of this specification do not raise.
HandleAfterSend(k) ==
    /\ task[k].pc = "sent"
    /\ \E handled \in {handle_after_send(db, task[k].id, task[k].reminder)} :
           /\ db' = IF Raised(handled.next_time)
                    THEN deactivate_reminder(handled.db, task[k].id)
                    ELSE handled.db
           /\ task' = [task EXCEPT ![k].pc = "done",
                                   ![k].calls = task[k].calls \o handled.calls
                                       \o (IF Raised(handled.next_time)
                                           THEN <<"deactivate_reminder">> ELSE <<>>)]
           /\ log' = IF IsRecurring(task[k].reminder.repeat_type) /\ handled.next_time = None
                     THEN Append(log, Event("exhausted", task[k].id, db[task[k].id],
                                            handled.db[task[k].id]))
                     ELSE log
    /\ UNCHANGED <<clock, boot, sqlite_sequence, avars, dvars, rvars, mvars>>

\* SnoozeView._snooze (lines 312-329): a button of a delivered message.
Snooze(id, minutes) ==
    /\ Delivered(id)
    /\ Snoozes < MaxSnoozes
    /\ db' = snooze_reminder(db, id, AddSeconds(clock, minutes * 60)).db
    /\ log' = Append(log, Event("snooze", id, db[id], db'[id]))
    /\ UNCHANGED <<clock, boot, task, sqlite_sequence, avars, dvars, rvars, mvars>>

\* Lines 82-87: asyncio.timeout(60) expires while the gather is awaited.
\* CancelledError is no Exception: it passes the handler of _process_one,
\* leaves `async with semaphore`, and the check logs the timeout and returns.
CheckTimesOut(check) ==
    /\ Unfinished(check) # {}
    /\ task' = [k \in 1..Len(task) |->
                   IF k \in Unfinished(check) THEN [task[k] EXCEPT !.pc = "cancelled"]
                   ELSE task[k]]
    /\ UNCHANGED <<db, clock, boot, log, sqlite_sequence, avars, dvars, rvars, mvars>>

\* Time passes until the next stored occurrence of an active reminder.
Wait ==
    /\ Len(task) < MaxTasks
    /\ \E id \in Pending :
          /\ \A other \in Pending : ~Before(db[other].remind_at, db[id].remind_at)
          /\ clock' = db[id].remind_at
    /\ UNCHANGED <<db, boot, task, log, sqlite_sequence, avars, dvars, rvars, mvars>>

SchedNext ==
    \/ StartupCheck
    \/ JobCheck
    \/ \E k \in 1..Len(task) : Acquire(k)
    \/ NoneAdmitted /\ \E k \in 1..Len(task), outcome \in SendOutcomes :
                           SendReminder(k, outcome)
    \/ NoneAdmitted /\ \E k \in 1..Len(task) : HandleAfterSend(k)
    \/ \E check \in {"startup", "job"} : CheckTimesOut(check)
    \/ \E id \in Ids, minutes \in SnoozeMinutes : Snooze(id, minutes)
    \/ Wait

SpecSched == SchedInit /\ [][SchedNext]_vars

-----------------------------------------------------------------------------
(* The scheduler after the bot was stopped for some days: reminder 1,       *)
(* "every day 9:00", last fired before the stop and its stored occurrence   *)
(* lies that many days before the start.                                    *)

MaxMissed == 2

OverdueInit ==
    /\ db \in { <<Row("u1", AddDays(BootTime, 0 - missed), "daily", NoValue, 1), second>> :
                   missed \in 0..MaxMissed,
                   second \in { r \in StoredReminders[2] : r.repeat_type = "monthly" } }
    /\ sqlite_sequence = Len(db)
    /\ clock = BootTime
    /\ boot = "starting"
    /\ task = <<>>
    /\ log = <<>>
    /\ IdleAdvance /\ IdleDetector /\ IdleResolver /\ IdleMain

SpecOverdue == OverdueInit /\ [][SchedNext]_vars

-----------------------------------------------------------------------------
(* One start of the bot with many reminders due: the check of start() and   *)
(* the interval job that fires while it is still in flight, each with the   *)
(* semaphore of its own call, and with sending, post-processing and the     *)
(* deactivation of the exception handler free to raise.                     *)

MaxDue == 4

\* Tasks followed in one start of the bot: those of the check of start() and
\* of one run of the interval job.
MaxGatherTasks == 8

\* The reminder whose sending or post-processing raises.
Broken == {1}

SCHEDULER_CHECK_INTERVAL_SEC == 30

\* asyncio.timeout(60) around the gather (line 83).
GATHER_TIMEOUT_SEC == 60

\* The tasks whose send or post-processing raised.
Failed == { k \in 1..Len(task) : task[k].outcome \in {"raised", "stuck"} }

\* Every stored reminder is "every day 9:00" and due when the bot starts.
GatherInit ==
    /\ db \in { [id \in 1..n |-> Row("u1", BootTime, "daily", NoValue, 1)] : n \in 1..MaxDue }
    /\ sqlite_sequence = Len(db)
    /\ clock = BootTime
    /\ boot = "starting"
    /\ task = <<>>
    /\ log = <<>>
    /\ IdleAdvance /\ IdleDetector /\ IdleResolver /\ IdleMain

\* start(), line 48: the check at start-up (lines 57-84).
GatherStartupCheck ==
    /\ boot = "starting"
    /\ boot' = "running"
    /\ task' = task \o TasksOf("startup", db, get_due_reminders(db, clock))
    /\ UNCHANGED <<db, clock, log, sqlite_sequence, avars, dvars, rvars, mvars>>

\* The interval job fires SCHEDULER_CHECK_INTERVAL_SEC after the last run,
\* whether or not the check of start() has returned; the runs that fall
\* before the gather of start() times out are modelled.  APScheduler runs
\* one instance of the job at a time.  The run is followed while the tasks
\* stay within MaxGatherTasks.
GatherJobCheck ==
    /\ boot = "running"
    /\ Before(AddSeconds(clock, SCHEDULER_CHECK_INTERVAL_SEC),
              AddSeconds(BootTime, GATHER_TIMEOUT_SEC))
    /\ Unfinished("job") = {}
    /\ clock' = AddSeconds(clock, SCHEDULER_CHECK_INTERVAL_SEC)
    /\ Len(task) + Len(get_due_reminders(db, clock')) <= MaxGatherTasks
    /\ task' = task \o TasksOf("job", db, get_due_reminders(db, clock'))
    /\ UNCHANGED <<db, boot, log, sqlite_sequence, avars, dvars, rvars, mvars>>

\* The calls of handle_after_send (lines 134-160) up to the call that
\* raises: _calculate_next_time when it raises itself (line 149), else the
\* storage call, deactivate_reminder for a reminder without recurrence or
\* without a next time and update_reminder_time otherwise.
CallsUntilRaise(reminder) ==
    IF ~IsRecurring(reminder.repeat_type) THEN <<"deactivate_reminder">>
    ELSE CHOOSE made \in
            { IF Raised(next_time) THEN <<"_calculate_next_time">>
              ELSE IF next_time = None
                  THEN <<"_calculate_next_time", "deactivate_reminder">>
              ELSE <<"_calculate_next_time", "update_reminder_time">> :
                next_time \in {_calculate_next_time(reminder.remind_at, reminder.repeat_type,
                                                    reminder.repeat_value)} } : TRUE

\* _process_one, lines 74-80: channel.send of send_reminder raises (pc
\* "sending"), or _calculate_next_time or the storage call of
\* handle_after_send raises (pc "sent"); neither has written.  The handler calls deactivate_reminder, which
\* deactivates or raises in its turn and is then only logged.  The task
\* ends and leaves `async with semaphore`.
ProcessOneRaises(k, deactivated) ==
    /\ task[k].pc \in {"sending", "sent"}
    /\ task[k].id \in Broken
    /\ db' = IF deactivated THEN deactivate_reminder(db, task[k].id) ELSE db
    /\ task' = [task EXCEPT ![k].pc = "done",
                            ![k].outcome = IF deactivated THEN "raised" ELSE "stuck",
                            ![k].calls = task[k].calls
                                \o (IF task[k].pc = "sent" THEN CallsUntilRaise(task[k].reminder)
                                    ELSE <<>>)
                                \o <<"deactivate_reminder">>]
    /\ UNCHANGED <<clock, boot, log, sqlite_sequence, avars, dvars, rvars, mvars>>

\* The steps of the _process_one tasks.
GatherTaskStep ==
    \/ \E k \in 1..Len(task) : Acquire(k)
    \/ NoneAdmitted /\ \E k \in 1..Len(task) : SendReminder(k, "ok")
    \/ NoneAdmitted /\ \E k \in 1..Len(task) : HandleAfterSend(k)
    \/ NoneAdmitted /\ \E k \in 1..Len(task), deactivated \in BOOLEAN :
                           ProcessOneRaises(k, deactivated)

\* One start of the bot: the checks, the steps of their tasks, and the 60
\* seconds of asyncio.timeout running out for a check, which cancels the
\* gather and with it every task of the check that has not ended.
GatherNext ==
    \/ GatherStartupCheck
    \/ GatherJobCheck
    \/ GatherTaskStep
    \/ \E check \in {"startup", "job"} : CheckTimesOut(check)

SpecGather == GatherInit /\ [][GatherNext]_vars

-----------------------------------------------------------------------------
(* The reminders table under the commands and buttons of the users: delete, *)
(* edit of the content, edit of the time (database.py, called by the       *)
(* commands of bot.py with the id of the calling user) and the snooze       *)
(* buttons.  Rows carry their content; log holds the last operation with    *)
(* the table before and after it and what it returned.                      *)

Users == {"u1", "u2"}
NewContents == {"milk"}

\* The ids operations are called with: reminders 1 and 2 are stored when the
\* bot starts, 3 is the id of the first reminder created after it.
StoreIds == {1, 2, 3}

\* Bound: the reminders created after the start.
MaxCreated == 2

\* The user who creates reminders, and what is created: "milk" every Tuesday
\* from the Tuesday after the start.
Creators == {"u1"}

\* The reminders whose notification has been posted, the first of the
\* table: the snooze and done buttons are those of its message (SnoozeView
\* is made in send_reminder, line 119, with the id of the reminder sent).
Notified == {1}

\* The message of reminder id carries the done button: SnoozeView takes it
\* off the message of a reminder that had no recurrence when it was sent
\* (lines 118-119 and 280-282).
HasDoneButton(id) ==
    \E k \in 1..Len(task) :
        task[k].id = id /\ task[k].delivered /\ IsRecurring(task[k].reminder.repeat_type)

\* The instant of the operations: late on the day of the start, a few
\* microseconds past 23:58:30.
ClickTimes ==
    { [BootTime EXCEPT !.hour = 23, !.minute = 58, !.second = 30, !.microsecond = 250] }

\* The minutes of the snooze buttons (custom ids snooze:5, :30, :60, :1440).
SNOOZE_BUTTONS == {5, 30, 60, 1440}

\* The times a user edits a reminder to.
NewTimes == { AddDays(BootTime, 7) }

StoredRow(row, content) ==
    [user_id |-> row.user_id, content |-> content, remind_at |-> row.remind_at,
     repeat_type |-> row.repeat_type, repeat_value |-> row.repeat_value,
     is_active |-> row.is_active]

\* DELETE FROM reminders WHERE id = ? (the owner is not compared).
delete_reminder_AnyUser(d, reminder_id, user_id) ==
    [db |-> [i \in DOMAIN d \ {reminder_id} |-> d[i]],
     success |-> reminder_id \in DOMAIN d]

\* DELETE FROM reminders WHERE id = ? AND user_id = ?; returns rowcount > 0.
delete_reminder(d, reminder_id, user_id) ==
    LET deleted == { i \in DOMAIN d : i = reminder_id /\ d[i].user_id = user_id }
    IN  [db |-> [i \in DOMAIN d \ deleted |-> d[i]], success |-> deleted # {}]

\* UPDATE reminders SET content = ? WHERE id = ? AND user_id = ?
update_reminder_content(d, reminder_id, user_id, new_content) ==
    LET updated == { i \in DOMAIN d : i = reminder_id /\ d[i].user_id = user_id }
    IN  [db |-> [i \in DOMAIN d |-> IF i \in updated
                                    THEN [d[i] EXCEPT !.content = new_content]
                                    ELSE d[i]],
         success |-> updated # {}]

\* UPDATE reminders SET remind_at = ? WHERE id = ? AND user_id = ?
update_reminder_time_by_user(d, reminder_id, user_id, new_time) ==
    LET updated == { i \in DOMAIN d : i = reminder_id /\ d[i].user_id = user_id }
    IN  [db |-> [i \in DOMAIN d |-> IF i \in updated
                                    THEN [d[i] EXCEPT !.remind_at = new_time]
                                    ELSE d[i]],
         success |-> updated # {}]

\* INSERT INTO reminders (...) VALUES (...); returns cursor.lastrowid.  The id
\* is one more than the largest AUTOINCREMENT has given, so the id of a
\* deleted row is not used again; is_active is 1 by the column's default.
create_reminder(d, sequence, user_id, content, remind_at, repeat_type, repeat_value) ==
    [db |-> [i \in DOMAIN d \cup {sequence + 1} |->
                IF i = sequence + 1
                THEN [user_id |-> user_id, content |-> content, remind_at |-> remind_at,
                      repeat_type |-> repeat_type, repeat_value |-> repeat_value,
                      is_active |-> 1]
                ELSE d[i]],
     reminder_id |-> sequence + 1,
     success |-> TRUE]

\* SnoozeView._snooze (lines 313-317): now + timedelta(minutes=minutes).
_snooze(d, reminder_id, at, minutes) ==
    snooze_reminder(d, reminder_id, AddSeconds(at, minutes * 60))

Operation(op, id, user, arg, at, before, result) ==
    [op |-> op, id |-> id, user |-> user, arg |-> arg, at |-> at, before |-> before,
     after |-> result.db, success |-> result.success]

\* Reminder 1 belongs to u1; its message was sent by the task of a check
\* that has ended, and the row was deactivated since, or is active (again);
\* reminder 2 belongs to u2 and is active.
StoreInit ==
    /\ db \in { <<StoredRow([first EXCEPT !.is_active = a], "call"),
                  StoredRow(second, "pay")>> :
                    first \in { r \in StoredReminders[1] : r.repeat_type \in {NoRepeat, "monthly"} },
                    second \in { r \in StoredReminders[2] : r.repeat_type = "weekly" },
                    a \in {0, 1} }
    /\ sqlite_sequence = Len(db)
    /\ clock = BootTime
    /\ boot = "running"
    /\ task = [k \in 1..Cardinality(Notified) |->
                  [Task("startup", k, [db[k] EXCEPT !.is_active = 1])
                     EXCEPT !.pc = "done", !.outcome = "ok", !.delivered = TRUE]]
    /\ log = <<>>
    /\ IdleAdvance /\ IdleDetector /\ IdleResolver /\ IdleMain

\* One operation at instant at, with what it returns.
Operate(at, op, id, user, arg, result) ==
    /\ ~Before(at, clock)
    /\ clock' = at
    /\ db' = result.db
    /\ log' = <<Operation(op, id, user, arg, at, db, result)>>
    /\ UNCHANGED <<boot, task, sqlite_sequence, avars, dvars, rvars, mvars>>

DeleteReminder(at, id, user) ==
    Operate(at, "delete_reminder", id, user, NoValue, delete_reminder(db, id, user))

UpdateReminderContent(at, id, user, new_content) ==
    Operate(at, "update_reminder_content", id, user, new_content,
            update_reminder_content(db, id, user, new_content))

UpdateReminderTimeByUser(at, id, user, new_time) ==
    Operate(at, "update_reminder_time_by_user", id, user, new_time,
            update_reminder_time_by_user(db, id, user, new_time))

\* ConfirmReminderView.confirm (bot.py, lines 316-330): the user the view
\* was made for presses the button, and create_reminder stores the reminder
\* under the next id.
CreateReminder(at, user, content, remind_at) ==
    /\ sqlite_sequence < Len(StoredReminders) + MaxCreated
    /\ ~Before(at, clock)
    /\ LET created == create_reminder(db, sqlite_sequence, user, content, remind_at,
                                      "weekly", <<Tok("ka")>>)
       IN  /\ db' = created.db
           /\ sqlite_sequence' = created.reminder_id
           /\ log' = <<Operation("create_reminder", created.reminder_id, user, content,
                                 at, db, created)>>
    /\ clock' = at
    /\ UNCHANGED <<boot, task, avars, dvars, rvars, mvars>>

\* Any user who sees the message can press a button; the id is the one of
\* the button's custom id.
PressSnooze(at, id, user, minutes) ==
    /\ Delivered(id)
    /\ Operate(at, "snooze", id, user, minutes, _snooze(db, id, at, minutes))

\* SnoozeView.mark_done (lines 300-311): the button is on the messages of
\* recurring reminders only (lines 281-282), and its handler deactivates the
\* reminder of the custom id without looking at the user.
MarkDone(at, id, user) ==
    /\ HasDoneButton(id)
    /\ Operate(at, "mark_done", id, user, NoValue,
               [db |-> deactivate_reminder(db, id), success |-> id \in DOMAIN db])

StoreNext ==
    \/ \E at \in ClickTimes, id \in StoreIds, user \in Users :
          \/ DeleteReminder(at, id, user)
          \/ \E new_content \in NewContents : UpdateReminderContent(at, id, user, new_content)
          \/ \E new_time \in NewTimes : UpdateReminderTimeByUser(at, id, user, new_time)
          \/ \E minutes \in SNOOZE_BUTTONS : PressSnooze(at, id, user, minutes)
          \/ MarkDone(at, id, user)
    \/ \E at \in ClickTimes, user \in Creators, content \in NewContents, remind_at \in NewTimes :
          CreateReminder(at, user, content, remind_at)

SpecStore == StoreInit /\ [][StoreNext]_vars

-----------------------------------------------------------------------------
(* main(): the supervisor loop that starts the bot again after a crash.     *)
(* Time is time.time() in whole seconds.                                    *)

MaxStarts == 6

max_retries == 5
retry_window == 300

\* How long run_bot() runs before it returns or raises, in seconds.
RunSeconds == {0, 290, 295, 300}

MainEvent(kind, at, n) == [kind |-> kind, at |-> at, n |-> n]

\* The starts of the bot so far.
Starts == Cardinality({ i \in 1..Len(mlog) : mlog[i].kind = "start" })

\* Line 124: wait = min(30, 5 * retry_count).
WaitFor(count) == IF 5 * count < 30 THEN 5 * count ELSE 30

\* The except branch with the counter reset from retry_window seconds on.
HandleCrash_ResetAtWindow(count, last, t) ==
    LET kept == IF t - last >= retry_window THEN 0 ELSE count
    IN  [retry_count |-> kept + 1, last_crash |-> t,
         stop |-> kept + 1 >= max_retries,
         wait |-> WaitFor(kept + 1)]

\* The except Exception branch (lines 109-125) at time t: the counter after
\* the crash, whether the loop breaks, and min(30, 5 * retry_count).
HandleCrash(count, last, t) ==
    LET kept == IF t - last > retry_window THEN 0 ELSE count
    IN  [retry_count |-> kept + 1, last_crash |-> t,
         stop |-> kept + 1 >= max_retries,
         wait |-> WaitFor(kept + 1)]

\* Lines 84-87: the locals of main() before the loop.
MainInit ==
    /\ retry_count = 0
    /\ last_crash = 0
    /\ wall \in {1700000000}
    /\ mpc = "loop"
    /\ mlog = <<>>
    /\ IdleAdvance /\ IdleDetector /\ IdleScheduler /\ IdleResolver

\* Lines 96-103: the top of the loop up to the call of run_bot().
StartBot ==
    /\ mpc = "loop"
    /\ Starts < MaxStarts
    /\ mpc' = "running"
    /\ mlog' = Append(mlog, MainEvent("start", wall, Starts + 1))
    /\ UNCHANGED <<retry_count, last_crash, wall, avars, dvars, svars, rvars>>

\* Lines 103-108: run_bot() returns, or KeyboardInterrupt; break.
RunBotEnds(how, seconds) ==
    /\ mpc = "running"
    /\ wall' = wall + seconds
    /\ mpc' = "done"
    /\ mlog' = Append(mlog, MainEvent(how, wall', 0))
    /\ UNCHANGED <<retry_count, last_crash, avars, dvars, svars, rvars>>

\* Lines 109-125: run_bot() raises an Exception.
RunBotCrashes(seconds) ==
    /\ mpc = "running"
    /\ wall' = wall + seconds
    /\ LET handled == HandleCrash(retry_count, last_crash, wall')
       IN  /\ retry_count' = handled.retry_count
           /\ last_crash' = handled.last_crash
           /\ mpc' = IF handled.stop THEN "done" ELSE "sleeping"
           /\ mlog' = Append(mlog, MainEvent("crash", wall', handled.retry_count))
    /\ UNCHANGED <<avars, dvars, svars, rvars>>

\* Line 126: time.sleep(wait), then the next turn of the loop.
Sleep ==
    /\ mpc = "sleeping"
    /\ wall' = wall + WaitFor(retry_count)
    /\ mlog' = Append(mlog, MainEvent("sleep", wall', WaitFor(retry_count)))
    /\ mpc' = "loop"
    /\ UNCHANGED <<retry_count, last_crash, avars, dvars, svars, rvars>>

MainNext ==
    \/ StartBot
    \/ \E how \in {"returned", "interrupted"}, seconds \in RunSeconds : RunBotEnds(how, seconds)
    \/ \E seconds \in RunSeconds : RunBotCrashes(seconds)
    \/ Sleep

SpecMain == MainInit /\ [][MainNext]_vars

-----------------------------------------------------------------------------
(* The user's input as text.  A text is the list of its characters, each a  *)
(* token named in romaji, a half-width digit Digit(d) or a full-width digit *)
(* Zen(d).  時 ji, 間 kan, 半 han, 後 go, 分 fun, 日 nichi, 週 shuu,          *)
(* 明 mei, 々 noma, 今 kon, 来 rai, 再 sai, 月 getsu, 末 matsu, 初 sho,      *)
(* 曜 you, 次 tsugi, 度 tabi, 午 noon, 前 zen, 正 sei, 昼 hiru, 深 shin,     *)
(* 夜 yoru, 朝 asa, 夕 yuu, 方 kata, 毎 mai, 隔 kaku, 平 hei, 第 dai,        *)
(* 晩 ban; the kana あ a, と to, の no, に ni, お o, し shi, さ sa, っ tsu,  *)
(* て te; a blank sp; the commas "," and 、 touten; and x for a character no *)
(* pattern names.                                                           *)

\* One of the half-width digits 0..9 (han).
Digit(d) == [t |-> "digit", v |-> d]

\* One of the full-width digits ０..９ (zen).
Zen(d) == [t |-> "zenkaku", v |-> d]

RECURSIVE DigitsOf(_)
\* str(n): the decimal digits of a number.
DigitsOf(n) == IF n < 10 THEN <<Digit(n)>> ELSE DigitsOf(n \div 10) \o <<Digit(n % 10)>>

RECURSIVE Text(_)
\* The string a list of characters and numbers writes: Num(n) writes the
\* decimal digits of n, every other element is one character.
Text(names) ==
    IF names = <<>> THEN <<>>
    ELSE (IF Head(names).t = "num" THEN DigitsOf(Head(names).v) ELSE <<Head(names)>>)
            \o Text(Tail(names))

\* The text of a list of characters.
Chars(names) == [j \in 1..Len(names) |-> Tok(names[j])]

\* normalize_numbers(text): every full-width digit becomes the half-width
\* one, every other character stays.
normalize_numbers(t) ==
    [j \in 1..Len(t) |-> IF t[j].t = "zenkaku" THEN Digit(t[j].v) ELSE t[j]]

\* text = normalize_numbers(user_input) (lines 110 and 301): the text the
\* patterns are matched in.
text == normalize_numbers(user_input)

\* Elements of a regular expression: a literal character, (\d+), \s*, an
\* optional character c?, a captured class ([...]) and a captured run ([...]+).
One(s) == [k |-> "one", s |-> {s}]
Digits == [k |-> "num", s |-> {"digit"}]
Spaces == [k |-> "ws", s |-> {"sp"}]
Maybe(s) == [k |-> "opt", s |-> {s}]
OneOf(S) == [k |-> "cap", s |-> S]
Run(S) == [k |-> "run", s |-> S]

\* The literal characters of a word, as a pattern.
Word(w) == [j \in 1..Len(w) |-> One(w[j])]

\* The number of characters of the class S from position i of t on.
ClassRun(S, t, i) ==
    CHOOSE n \in 0..(Len(t) + 1 - i) :
        /\ \A k \in 0..(n - 1) : t[i + k].t \in S
        /\ i + n > Len(t) \/ t[i + n].t \notin S

RECURSIVE IntOf(_, _, _)
\* int() of the n digits of t from position i on.
IntOf(t, i, n) == IF n = 0 THEN 0 ELSE 10 * IntOf(t, i, n - 1) + t[i + n - 1].v

RECURSIVE IntsOf(_, _, _)
\* [int(n) for n in re.split(r'[,、]', group) if n.strip()] on the characters
\* c of the group: the numbers between the commas, in order.
IntsOf(c, ints, in_number) ==
    IF c = <<>> THEN ints
    ELSE IF Head(c).t # "digit" THEN IntsOf(Tail(c), ints, FALSE)
    ELSE IF in_number
        THEN IntsOf(Tail(c), [ints EXCEPT ![Len(ints)] = 10 * ints[Len(ints)] + Head(c).v], TRUE)
    ELSE IntsOf(Tail(c), Append(ints, Head(c).v), TRUE)

\* re.match of the pattern at position i: None, or the captured groups: the
\* number int() reads in a group (\d+), the character of a class, the
\* characters of a run.  The quantifiers are greedy; none of the patterns
\* below needs backtracking.
RECURSIVE MatchFrom(_, _, _, _)
MatchFrom(t, i, pat, caps) ==
    IF pat = <<>> THEN [caps |-> caps]
    ELSE
        LET p == Head(pat)
            here == i <= Len(t) /\ t[i].t \in p.s
        IN  IF p.k = "ws" THEN
                (IF here THEN MatchFrom(t, i + 1, pat, caps)
                 ELSE MatchFrom(t, i, Tail(pat), caps))
            ELSE IF p.k = "opt" THEN
                (IF here THEN MatchFrom(t, i + 1, Tail(pat), caps)
                 ELSE MatchFrom(t, i, Tail(pat), caps))
            ELSE IF ~here THEN None
            ELSE IF p.k = "run" THEN
                (IF i + 1 <= Len(t) /\ t[i + 1].t \in p.s
                 THEN MatchFrom(t, i + 1, pat, Append(caps, t[i]))
                 ELSE MatchFrom(t, i + 1, Tail(pat), Append(caps, t[i])))
            ELSE IF p.k = "num"
                THEN MatchFrom(t, i + ClassRun(p.s, t, i), Tail(pat),
                               Append(caps, Num(IntOf(t, i, ClassRun(p.s, t, i)))))
            ELSE IF p.k = "cap"
                THEN MatchFrom(t, i + 1, Tail(pat), Append(caps, t[i]))
            ELSE MatchFrom(t, i + 1, Tail(pat), caps)

\* The positions re.search can match the pattern at.
MatchStarts(t, pat) == {i \in 1..Len(t) : MatchFrom(t, i, pat, <<>>) # None}

\* re.search(pat, t): the leftmost match, None without one.
Search(t, pat) ==
    LET S == MatchStarts(t, pat)
    IN  IF S = {} THEN None
        ELSE MatchFrom(t, CHOOSE i \in S : \A j \in S : i <= j, pat, <<>>)

\* re.search of an alternation (a|b) followed by rest: the leftmost match,
\* the first alternative at equal positions.
SearchEither(t, a, b, rest) ==
    LET S == MatchStarts(t, a \o rest) \cup MatchStarts(t, b \o rest)
        first == CHOOSE i \in S : \A j \in S : i <= j
    IN  IF S = {} THEN None
        ELSE IF MatchFrom(t, first, a \o rest, <<>>) # None
            THEN MatchFrom(t, first, a \o rest, <<>>)
        ELSE MatchFrom(t, first, b \o rest, <<>>)

\* `word in t` on strings.
Contains(t, w) == MatchStarts(t, Word(w)) # {}

\* int(m.group(g))
Group(m, g) == m.caps[g].v

\* The words of the texts.
Gogo == <<"noon", "go">>
Gozen == <<"noon", "zen">>
Shogo == <<"sei", "noon">>
Ohiru == <<"o", "hiru">>
Yugata == <<"yuu", "kata">>
Shinya == <<"shin", "yoru">>

\* The time-of-day word that decides the hour: 朝 before all; beside X時 any
\* of 昼, 夕方, 夜, 深夜 alike; else the first of 正午, お昼, 昼, 夕方, 深夜, 夜.
TimeWord(t, mark) ==
    IF Contains(t, <<"asa">>) THEN "asa"
    ELSE IF mark = "ji" THEN
        (IF \E w \in {<<"hiru">>, Yugata, <<"yoru">>, Shinya} : Contains(t, w)
         THEN "yoru" ELSE "none")
    ELSE IF Contains(t, Shogo) THEN "shogo"
    ELSE IF Contains(t, Ohiru) THEN "ohiru"
    ELSE IF Contains(t, <<"hiru">>) THEN "hiru"
    ELSE IF Contains(t, Yugata) THEN "yugata"
    ELSE IF Contains(t, Shinya) THEN "shinya"
    ELSE IF Contains(t, <<"yoru">>) THEN "yoru"
    ELSE "none"

\* The hour expression of the three searches of extract_hour, in their order.
HourMark(gogo, gozen, ji) ==
    IF gogo # None THEN [mark |-> "gogo", h |-> Group(gogo, 1)]
    ELSE IF gozen # None THEN [mark |-> "gozen", h |-> Group(gozen, 1)]
    ELSE IF ji # None THEN [mark |-> "ji", h |-> Group(ji, 1)]
    ELSE [mark |-> "none", h |-> 0]

\* The minute expression of the two searches of extract_minute, in their order.
MinuteMark(han, fun) ==
    IF han # None THEN [min |-> "han", m |-> 0]
    ELSE IF fun # None THEN [min |-> "fun", m |-> Group(fun, 2)]
    ELSE [min |-> "none", m |-> 0]

TimeRecord(t, hm, mm) ==
    [mark |-> hm.mark, h |-> hm.h, word |-> TimeWord(t, hm.mark), min |-> mm.min, m |-> mm.m]

\* What extract_hour and extract_minute read in a text (lines 58-101): the
\* first of 午後X時, 午前X時, X時 with its hour, the time-of-day word that
\* decides, and the minute expression X時半 or X時Y分.
TimeOf(t) ==
    TimeRecord(t,
        HourMark(Search(t, Word(Gogo) \o <<Spaces, Digits, Spaces, One("ji")>>),
                 Search(t, Word(Gozen) \o <<Spaces, Digits, Spaces, One("ji")>>),
                 Search(t, <<Digits, Spaces, One("ji")>>)),
        MinuteMark(Search(t, <<Digits, Spaces, One("ji"), Spaces, One("han")>>),
                   Search(t, <<Digits, Spaces, One("ji"), Spaces, Digits, Spaces, One("fun")>>)))

\* The datetime of a base date and a time expression read.
AtTimeOf(base_date, te, default_hour) ==
    make_dt(base_date, extract_hour(te, default_hour), extract_minute(te))

\* make_time(base_date, t, default_hour) of parse_datetime_pattern (lines
\* 304-308): replace() raises ValueError on an hour or a minute out of range.
make_time(base_date, t, default_hour) == AtTimeOf(base_date, TimeOf(t), default_hour)

\* RollOver keeping a result equal to now on today.
RollOver_OnlyWhenPast(n, r) ==
    IF r = ValueError THEN ValueError
    ELSE IF Before(r, n) THEN AddDays(r, 1)
    ELSE r

\* result, a day later when it is not after now.
RollOver(n, r) ==
    IF r = ValueError THEN ValueError
    ELSE IF ~Before(n, r) THEN AddDays(r, 1)
    ELSE r

\* now.replace(hour, minute, second=0, microsecond=0), a day later when that
\* is not after now (lines 566-569 and the like).
TodayOrTomorrow(n, hour, minute) == RollOver(n, make_dt(n, hour, minute))

-----------------------------------------------------------------------------
(* parse_datetime_pattern: the single-shot resolver.  Its rules are tried   *)
(* in source order and the first one that applies returns.                  *)

\* PatternRules with the month-boundary rules of this and next month ahead
\* of the rules of the month after next.
PatternRules_BoundariesFirst ==
    << "jikan_han_go", "jikan_go", "fun_go", "ato_jikan", "nichi_go", "shuukan_go",
       "shiasatte", "asatte", "ashita", "kyou",
       "raishuumatsu", "shuumatsu",
       "raigetsu_matsu", "getsumatsu", "raigetsu_sho", "gessho",
       "saraigetsu_matsu", "saraigetsu_sho", "saraigetsu_nichi", "saraigetsu",
       "raigetsu_nichi", "kongetsu_nichi",
       "saraishuu_youbi", "raishuu_youbi", "konshuu_youbi", "tsugi_youbi",
       "gatsu_nichi",
       "shogo", "shinya", "gogo_ji", "gozen_ji", "ji_han", "ji_fun", "ji",
       "asa", "hiru", "yugata", "yoru" >>

\* The rules, named after their patterns, in source order (lines 310-632).
PatternRules ==
    << "jikan_han_go", "jikan_go", "fun_go", "ato_jikan", "nichi_go", "shuukan_go",
       "shiasatte", "asatte", "ashita", "kyou",
       "raishuumatsu", "shuumatsu",
       "saraigetsu_matsu", "saraigetsu_sho", "saraigetsu_nichi", "saraigetsu",
       "raigetsu_matsu", "getsumatsu", "raigetsu_sho", "gessho",
       "raigetsu_nichi", "kongetsu_nichi",
       "saraishuu_youbi", "raishuu_youbi", "konshuu_youbi", "tsugi_youbi",
       "gatsu_nichi",
       "shogo", "shinya", "gogo_ji", "gozen_ji", "ji_han", "ji_fun", "ji",
       "asa", "hiru", "yugata", "yoru" >>

\* `m = a or b` on two searches.
OrElse(a, b) == IF a # None THEN a ELSE b

\* `if word in text` as a match without groups.
Found(t, w) == IF Contains(t, w) THEN [caps |-> <<>>] ELSE None

\* X曜日 after a week qualifier: \s*の?\s*([月火水木金土日])\s*曜?日?
OfWeekday ==
    << Spaces, Maybe("no"), Spaces,
       OneOf({WEEKDAY_NAMES[w] : w \in 1..7}),
       Spaces, Maybe("you"), Maybe("nichi") >>

\* The words that keep X時半, X時Y分 and X時 from applying (lines 600, 609, 618).
HasDateWord(t) ==
    \E w \in { <<"mei", "nichi">>, <<"mei", "go", "nichi">>, <<"rai", "shuu">>,
               <<"kon", "shuu">>, <<"tsugi", "no">>, <<"getsu">>, <<"kon", "tabi">> } :
        Contains(t, w)

Unless(cond, m) == IF cond THEN None ELSE m

\* The match of a rule's pattern in the text, None when the rule does not apply.
Hit(r, t) ==
    CASE r = "jikan_han_go" ->
            Search(t, <<Digits, Spaces, One("ji"), One("kan"), Spaces, One("han"), Spaces, One("go")>>)
      [] r = "jikan_go" ->
            Search(t, <<Digits, Spaces, One("ji"), One("kan"), Spaces, One("go")>>)
      [] r = "fun_go" ->
            OrElse(Search(t, <<Digits, Spaces, One("fun"), Spaces, One("go")>>),
                   Search(t, <<One("a"), One("to"), Spaces, Digits, Spaces, One("fun")>>))
      [] r = "ato_jikan" ->
            Search(t, <<One("a"), One("to"), Spaces, Digits, Spaces, One("ji"), One("kan")>>)
      [] r = "nichi_go" ->
            OrElse(Search(t, <<Digits, Spaces, One("nichi"), Spaces, One("go")>>),
                   Search(t, <<One("a"), One("to"), Spaces, Digits, Spaces, One("nichi")>>))
      [] r = "shuukan_go" ->
            Search(t, <<Digits, Spaces, One("shuu"), Maybe("kan"), Spaces, One("go")>>)
      [] r = "shiasatte" ->
            OrElse(Found(t, <<"mei", "noma", "go", "nichi">>), Found(t, <<"shi", "a", "sa", "tsu", "te">>))
      [] r = "asatte" -> Found(t, <<"mei", "go", "nichi">>)
      [] r = "ashita" -> Found(t, <<"mei", "nichi">>)
      [] r = "kyou" -> Found(t, <<"kon", "nichi">>)
      [] r = "raishuumatsu" -> Found(t, <<"rai", "shuu", "matsu">>)
      [] r = "shuumatsu" ->
            OrElse(Found(t, <<"kon", "shuu", "matsu">>), Found(t, <<"shuu", "matsu">>))
      [] r = "saraigetsu_matsu" -> Found(t, <<"sai", "rai", "getsu", "matsu">>)
      [] r = "saraigetsu_sho" -> Found(t, <<"sai", "rai", "getsu", "sho">>)
      [] r = "saraigetsu_nichi" ->
            Search(t, Word(<<"sai", "rai", "getsu">>) \o <<Spaces, Digits, Spaces, One("nichi")>>)
      [] r = "saraigetsu" -> Found(t, <<"sai", "rai", "getsu">>)
      [] r = "raigetsu_matsu" -> Found(t, <<"rai", "getsu", "matsu">>)
      [] r = "getsumatsu" ->
            OrElse(Found(t, <<"getsu", "matsu">>), Found(t, <<"kon", "getsu", "matsu">>))
      [] r = "raigetsu_sho" -> Found(t, <<"rai", "getsu", "sho">>)
      [] r = "gessho" -> Found(t, <<"getsu", "sho">>)
      [] r = "raigetsu_nichi" ->
            Search(t, Word(<<"rai", "getsu">>) \o <<Spaces, Digits, Spaces, One("nichi")>>)
      [] r = "kongetsu_nichi" ->
            Search(t, Word(<<"kon", "getsu">>) \o <<Spaces, Digits, Spaces, One("nichi")>>)
      [] r = "saraishuu_youbi" -> Search(t, Word(<<"sai", "rai", "shuu">>) \o OfWeekday)
      [] r = "raishuu_youbi" -> Search(t, Word(<<"rai", "shuu">>) \o OfWeekday)
      [] r = "konshuu_youbi" -> Search(t, Word(<<"kon", "shuu">>) \o OfWeekday)
      [] r = "tsugi_youbi" ->
            SearchEither(t, Word(<<"tsugi">>), Word(<<"kon", "tabi">>), OfWeekday)
      [] r = "gatsu_nichi" ->
            Search(t, <<Digits, Spaces, One("getsu"), Spaces, Digits, Spaces, One("nichi")>>)
      [] r = "shogo" -> OrElse(Found(t, Shogo), Found(t, Ohiru))
      [] r = "shinya" -> Found(t, Shinya)
      [] r = "gogo_ji" -> Search(t, Word(Gogo) \o <<Spaces, Digits, Spaces, One("ji")>>)
      [] r = "gozen_ji" -> Search(t, Word(Gozen) \o <<Spaces, Digits, Spaces, One("ji")>>)
      [] r = "ji_han" ->
            Unless(HasDateWord(t),
                   Search(t, <<Digits, Spaces, One("ji"), Spaces, One("han")>>))
      [] r = "ji_fun" ->
            Unless(HasDateWord(t),
                   Search(t, <<Digits, Spaces, One("ji"), Spaces, Digits, Spaces, One("fun")>>))
      [] r = "ji" ->
            Unless(HasDateWord(t) \/ Contains(t, Gozen) \/ Contains(t, Gogo),
                   Search(t, <<Digits, Spaces, One("ji")>>))
      [] r = "asa" -> Found(t, <<"asa">>)
      [] r = "hiru" -> Found(t, <<"hiru">>)
      [] r = "yugata" -> Found(t, Yugata)
      [] r = "yoru" -> Found(t, <<"yoru">>)

\* (year, month) k months after now's month: the `while month > 12` loops.
MonthsAhead(n, k) ==
    IF n.month + k > 12 THEN [year |-> n.year + 1, month |-> n.month + k - 12]
    ELSE [year |-> n.year, month |-> n.month + k]

\* LastDayOf as a fixed day of the month.
LastDayOf_Day28(ym) == DateTime(ym.year, ym.month, 28)

\* The last day of a month: the first of the following month minus one day.
LastDayOf(ym) ==
    IF ym.month = 12 THEN AddDays(DateTime(ym.year + 1, 1, 1), -1)
    ELSE AddDays(DateTime(ym.year, ym.month + 1, 1), -1)

\* DayOrNone falling back to the last day of the month when the day is missing.
DayOrNone_LastDay(year, month, day, t) ==
    IF ValidDate(year, month, day) THEN make_time(DateTime(year, month, day), t, 9)
    ELSE make_time(LastDayOf([year |-> year, month |-> month]), t, 9)

\* datetime(year, month, day) in a try block whose except returns None.
DayOrNone(year, month, day, t) ==
    IF ValidDate(year, month, day) THEN make_time(DateTime(year, month, day), t, 9)
    ELSE None

\* days_until_monday = (7 - now.weekday()) % 7 or 7
DaysUntilMonday(n) ==
    IF (7 - Weekday(n)) % 7 = 0 THEN 7 ELSE (7 - Weekday(n)) % 7

\* The weekday a week-qualified rule captured.
TargetWeekday(m) == WEEKDAY_MAP(m.caps[1].t)

\* X月X日 (lines 550-560): this year, the next when the date has passed.
MonthDay(n, month, day, t) ==
    IF ~ValidDate(n.year, month, day) THEN None
    ELSE IF Ordinal(DateTime(n.year, month, day)) < Ordinal(n)
        THEN DayOrNone(n.year + 1, month, day, t)
    ELSE make_time(DateTime(n.year, month, day), t, 9)

\* target = now + timedelta(...) followed by make_time(target, text): the sum
\* raises before make_time is called (lines 336-337 and 343-344).
TimeOn(target, t) ==
    IF target = OverflowError THEN OverflowError ELSE make_time(target, t, 9)

\* What a rule returns on its match m.
Yield(r, t, n, m) ==
    CASE r = "jikan_han_go" -> PlusTime(n, Group(m, 1), 30)
      [] r = "jikan_go" -> PlusTime(n, Group(m, 1), 0)
      [] r = "fun_go" -> PlusTime(n, 0, Group(m, 1))
      [] r = "ato_jikan" -> PlusTime(n, Group(m, 1), 0)
      [] r = "nichi_go" -> TimeOn(PlusDays(n, Group(m, 1)), t)
      [] r = "shuukan_go" -> TimeOn(PlusWeeks(n, Group(m, 1)), t)
      [] r = "shiasatte" -> make_time(AddDays(n, 3), t, 9)
      [] r = "asatte" -> make_time(AddDays(n, 2), t, 9)
      [] r = "ashita" -> make_time(AddDays(n, 1), t, 9)
      [] r = "kyou" -> make_time(n, t, n.hour + 1)
      [] r = "raishuumatsu" -> make_time(AddDays(n, DaysUntilMonday(n) + 5), t, 9)
      [] r = "shuumatsu" ->
            make_time(IF Weekday(n) \in {5, 6} THEN n ELSE AddDays(n, 5 - Weekday(n)), t, 9)
      [] r = "saraigetsu_matsu" -> make_time(LastDayOf(MonthsAhead(n, 2)), t, 9)
      [] r = "saraigetsu_sho" ->
            make_time(DateTime(MonthsAhead(n, 2).year, MonthsAhead(n, 2).month, 1), t, 9)
      [] r = "saraigetsu_nichi" ->
            DayOrNone(MonthsAhead(n, 2).year, MonthsAhead(n, 2).month, Group(m, 1), t)
      [] r = "saraigetsu" ->
            make_time(DateTime(MonthsAhead(n, 2).year, MonthsAhead(n, 2).month, 1), t, 9)
      [] r = "raigetsu_matsu" -> make_time(LastDayOf(MonthsAhead(n, 1)), t, 9)
      [] r = "getsumatsu" ->
            make_time(AddDays(DateTime(MonthsAhead(n, 1).year, MonthsAhead(n, 1).month, 1), -1), t, 9)
      [] r = "raigetsu_sho" ->
            make_time(DateTime(MonthsAhead(n, 1).year, MonthsAhead(n, 1).month, 1), t, 9)
      [] r = "gessho" -> make_time([n EXCEPT !.day = 1], t, 9)
      [] r = "raigetsu_nichi" ->
            DayOrNone(MonthsAhead(n, 1).year, MonthsAhead(n, 1).month, Group(m, 1), t)
      [] r = "kongetsu_nichi" ->
            IF ValidDate(n.year, n.month, Group(m, 1))
            THEN make_time([n EXCEPT !.day = Group(m, 1)], t, 9)
            ELSE None
      [] r = "saraishuu_youbi" ->
            make_time(AddDays(n, DaysUntilMonday(n) + 7 + TargetWeekday(m)), t, 9)
      [] r = "raishuu_youbi" ->
            make_time(AddDays(n, DaysUntilMonday(n) + TargetWeekday(m)), t, 9)
      [] r = "konshuu_youbi" ->
            make_time(AddDays(n, TargetWeekday(m) - Weekday(n)), t, 9)
      [] r = "tsugi_youbi" ->
            make_time(AddDays(n, IF TargetWeekday(m) - Weekday(n) <= 0
                                 THEN TargetWeekday(m) - Weekday(n) + 7
                                 ELSE TargetWeekday(m) - Weekday(n)), t, 9)
      [] r = "gatsu_nichi" -> MonthDay(n, Group(m, 1), Group(m, 2), t)
      [] r = "shogo" -> TodayOrTomorrow(n, 12, 0)
      [] r = "shinya" -> TodayOrTomorrow(n, 23, 0)
      [] r = "gogo_ji" ->
            TodayOrTomorrow(n, IF Group(m, 1) < 12 THEN Group(m, 1) + 12 ELSE Group(m, 1),
                            extract_minute(TimeOf(t)))
      [] r = "gozen_ji" -> TodayOrTomorrow(n, Group(m, 1), extract_minute(TimeOf(t)))
      [] r = "ji_han" -> TodayOrTomorrow(n, Group(m, 1), 30)
      [] r = "ji_fun" -> TodayOrTomorrow(n, Group(m, 1), Group(m, 2))
      [] r = "ji" -> TodayOrTomorrow(n, Group(m, 1), 0)
      [] r = "asa" -> TodayOrTomorrow(n, 8, 0)
      [] r = "hiru" -> TodayOrTomorrow(n, 12, 0)
      [] r = "yugata" -> TodayOrTomorrow(n, 17, 0)
      [] r = "yoru" -> TodayOrTomorrow(n, 20, 0)

\* The positions in PatternRules of the rules that apply to the text.
Applying(t) == {i \in 1..Len(PatternRules) : Hit(PatternRules[i], t) # None}

\* The rule that returns: the first that applies ("none" without one).
FirstOf(applying) ==
    IF applying = {} THEN "none"
    ELSE PatternRules[CHOOSE i \in applying : \A j \in applying : i <= j]

FiredRule(t) == FirstOf(Applying(t))

\* parse_datetime_pattern(user_input, now, tz): a datetime, None, the
\* ValueError that replace() raised or the OverflowError of a sum.
YieldOf(fired, t, n) ==
    IF fired = "none" THEN None ELSE Yield(fired, t, n, Hit(fired, t))

ResolveIn(t, n) == YieldOf(FiredRule(t), t, n)

\* parse_datetime_pattern(user_input, now, tz), line 301 first.
parse_datetime_pattern(input, n) == ResolveIn(normalize_numbers(input), n)

-----------------------------------------------------------------------------
(* parse_repeat_pattern on a text: what its patterns read in the text, as   *)
(* the phrase the detector above works on.  The patterns are searched in    *)
(* the text; the hour and the minute are read in time_text (line 113), the  *)
(* text with the content of extract_content taken out.                      *)

RECURSIVE Removed(_, _)
\* str.replace(w, '') on lists of characters, w not empty: the occurrences
\* of w are taken out from the left, none overlapping another.
Removed(c, w) ==
    IF Len(c) < Len(w) THEN c
    ELSE IF SubSeq(c, 1, Len(w)) = w THEN Removed(SubSeq(c, Len(w) + 1, Len(c)), w)
    ELSE <<Head(c)>> \o Removed(Tail(c), w)

\* t.replace(w, ''): character by character, so that a digit of w is also
\* taken out of a longer number of t.
Replace(t, w) == IF w = <<>> THEN t ELSE Removed(t, w)

Weekdays == {WEEKDAY_NAMES[w] : w \in 1..7}

\* 毎月\s*第\s*([\d,、]+)\s*([月火水木金土日])\s*曜?日? (lines 166 and 178)
EveryMonthNth ==
    Word(<<"mai", "getsu">>) \o
        << Spaces, One("dai"), Spaces, Run({"digit", ",", "touten"}), Spaces, OneOf(Weekdays),
           Spaces, Maybe("you"), Maybe("nichi") >>

\* The text the hour is read from, t being time_text: the daily cadence
\* words are taken out of it first (lines 250, 259 and 268).
HourText(t, cadence) ==
    IF cadence = "maiasa" THEN Replace(t, Chars(<<"mai", "asa">>))
    ELSE IF cadence = "maiban" THEN Replace(t, Chars(<<"mai", "ban">>))
    ELSE IF cadence = "maiyuu"
        THEN Replace(Replace(t, Chars(<<"mai", "yuu", "kata">>)), Chars(<<"mai", "yuu">>))
    ELSE t

\* The branch of parse_repeat_pattern the text takes, in source order.
CadenceOf(t) ==
    IF Search(t, EveryMonthNth \o <<Spaces, Maybe("no"), Spaces, One("zen"), One("nichi")>>) # None
        THEN "maitsuki_dai_zenjitsu"
    ELSE IF Search(t, EveryMonthNth) # None THEN "maitsuki_dai"
    ELSE IF Search(t, Word(<<"mai", "getsu">>) \o <<Spaces, Digits, Spaces, One("nichi")>>) # None
        THEN "maitsuki_nichi"
    ELSE IF Search(t, Word(<<"kaku", "shuu">>) \o <<Spaces, OneOf(Weekdays)>>) # None
        THEN "kakushu"
    ELSE IF Search(t, Word(<<"mai", "shuu">>) \o <<Spaces, OneOf(Weekdays)>>) # None
        THEN "maishu_youbi"
    ELSE IF Contains(t, <<"mai", "shuu">>) THEN "maishu"
    ELSE IF Contains(t, <<"mai", "asa">>) THEN "maiasa"
    ELSE IF Contains(t, <<"mai", "ban">>) THEN "maiban"
    ELSE IF Contains(t, <<"mai", "yuu">>) THEN "maiyuu"
    ELSE IF Contains(t, <<"mai", "nichi">>) THEN "mainichi"
    ELSE IF Contains(t, <<"hei", "nichi">>) THEN "heijitsu"
    ELSE "none"

\* The weekday the branch captured.
WeekdayRead(cadence, nth, every_other, every) ==
    IF cadence \in {"maitsuki_dai_zenjitsu", "maitsuki_dai"} THEN nth.caps[Len(nth.caps)].t
    ELSE IF cadence = "kakushu" THEN every_other.caps[1].t
    ELSE IF cadence = "maishu_youbi" THEN every.caps[1].t
    ELSE "getsu"

PhraseRead(cadence, nth, day, wd_name, hours, minutes) ==
    [cadence |-> cadence,
     nths |-> IF cadence \in {"maitsuki_dai_zenjitsu", "maitsuki_dai"}
              THEN IntsOf(SubSeq(nth.caps, 1, Len(nth.caps) - 1), <<>>, FALSE) ELSE <<>>,
     wd_name |-> wd_name,
     day |-> IF cadence = "maitsuki_nichi" THEN Group(day, 1) ELSE 0,
     mark |-> hours.mark, h |-> hours.h, word |-> hours.word,
     min |-> minutes.min, m |-> minutes.m]

-----------------------------------------------------------------------------
(* extract_content: the patterns removed from the input, in source order.   *)
(* Further characters of the texts: か kana_ka, ら ra, ま ma, で de, へ he,  *)
(* げ ge, ん n, こ ko, が ga, き ki, イ i, チ chi, 揚 age, 拭 fuki.          *)

\* The elements of s at the positions keep, in the order of s.
Pick(s, keep) ==
    [n \in 1..Cardinality(keep) |->
        s[CHOOSE j \in keep : Cardinality({ k \in keep : k < j }) = n - 1]]

\* The places <<j, k>> of the elements ss[j][k] of a sequence of sequences.
Places(ss) == UNION { { <<j, k>> : k \in 1..Len(ss[j]) } : j \in 1..Len(ss) }

\* The place p comes before the place q.
PlaceBefore(p, q) == p[1] < q[1] \/ (p[1] = q[1] /\ p[2] < q[2])

\* The places of places that hold the first occurrence of their element.
FirstPlaces(ss, places) ==
    { p \in places : \A q \in places : PlaceBefore(q, p) => ss[q[1]][q[2]] # ss[p[1]][p[2]] }

\* The elements at the given places, in the order of the places.
InPlaceOrder(ss, places) ==
    [n \in 1..Cardinality(places) |->
        LET p == CHOOSE q \in places : Cardinality({ o \in places : PlaceBefore(o, q) }) = n - 1
        IN  ss[p[1]][p[2]]]

\* The elements of the sequences ss[1], ss[2], ..., one sequence after the
\* other, each element once, at its first place.
InOrder(ss) ==
    IF Len(ss) = 0 THEN <<>> ELSE InPlaceOrder(ss, FirstPlaces(ss, Places(ss)))

\* The expressions of a concatenation, those of r when r is one.
Parts(r) == IF r.k = "cat" THEN r.a ELSE <<r>>

\* The expressions a with the concatenations among them spliced in: (ab)c
\* is abc.
Spliced(parts) == InPlaceOrder(parts, Places(parts))

\* Regular expressions as trees: a character of a class, a concatenation, an
\* ordered alternation (a|b), a greedy optional r?, a greedy run [..]*, the
\* lookaheads (?=r) and (?!r), and $.
Lit(S) == [k |-> "lit", s |-> S, a |-> <<>>]
Cat(a) == [k |-> "cat", s |-> {}, a |-> Spliced([j \in 1..Len(a) |-> Parts(a[j])])]
Alt(a) == [k |-> "alt", s |-> {}, a |-> a]
Opt(r) == [k |-> "opt", s |-> {}, a |-> <<r>>]
Star(S) == [k |-> "star", s |-> S, a |-> <<>>]
Ahead(r) == [k |-> "ahead", s |-> {}, a |-> <<r>>]
NotAhead(r) == [k |-> "notahead", s |-> {}, a |-> <<r>>]
AtEnd == [k |-> "end", s |-> {}, a |-> <<>>]

\* A literal character and a literal word.
Ch(c) == Lit({c})
Str(w) == Cat([j \in 1..Len(w) |-> Lit({w[j]})])

\* The positions i+n, ..., i: a greedy run gives back its characters one by one.
Downto(i, n) == [k \in 1..(n + 1) |-> i + n + 1 - k]

RECURSIVE EndsOf(_, _, _)
RECURSIVE Through(_, _, _, _, _)
\* The ends of the matches of the expressions a[lo], ..., a[hi], one after the
\* other, from the positions starts, in the order the backtracking matcher of
\* re tries them: the first half of the expressions, then the second half from
\* the ends of the first.
Through(a, lo, hi, t, starts) ==
    IF lo > hi \/ starts = <<>> THEN starts
    ELSE IF lo = hi
        THEN InOrder([j \in 1..Len(starts) |-> EndsOf(a[lo], t, starts[j])])
    ELSE CHOOSE ends \in { Through(a, (lo + hi) \div 2 + 1, hi, t, middle) :
                              middle \in {Through(a, lo, (lo + hi) \div 2, t, starts)} } : TRUE

\* The ends of the matches of r from position i of t, in the order the
\* backtracking matcher tries them: the first alternative first, the longest
\* run first, an optional part present before absent.
EndsOf(r, t, i) ==
    CASE r.k = "lit" -> IF i <= Len(t) /\ t[i].t \in r.s THEN <<i + 1>> ELSE <<>>
      [] r.k = "cat" -> Through(r.a, 1, Len(r.a), t, <<i>>)
      [] r.k = "alt" -> InOrder([j \in 1..Len(r.a) |-> EndsOf(r.a[j], t, i)])
      [] r.k = "opt" -> InOrder(<<EndsOf(r.a[1], t, i), <<i>>>>)
      [] r.k = "star" -> Downto(i, ClassRun(r.s, t, i))
      [] r.k = "ahead" -> IF EndsOf(r.a[1], t, i) # <<>> THEN <<i>> ELSE <<>>
      [] r.k = "notahead" -> IF EndsOf(r.a[1], t, i) = <<>> THEN <<i>> ELSE <<>>
      [] r.k = "end" -> IF i = Len(t) + 1 THEN <<i>> ELSE <<>>

\* The end of the match of the pattern from position i of t: the first end the
\* matcher reaches, -1 when there is none.
FirstEnd(ends) == IF ends = <<>> THEN -1 ELSE ends[1]

MatchEnd(pattern, t, i) == FirstEnd(EndsOf(pattern, t, i))

\* The least position of a set of positions.
Leftmost(hits) == CHOOSE p \in hits : \A q \in hits : p <= q

RECURSIVE SubFrom(_, _, _)
\* The text from position i on with the match at the leftmost of the
\* positions hits taken out, and the matches after it.
CutAt(pattern, t, i, hits) ==
    IF hits = {} THEN SubSeq(t, i, Len(t))
    ELSE SubSeq(t, i, Leftmost(hits) - 1)
            \o SubFrom(pattern, t, MatchEnd(pattern, t, Leftmost(hits)))

\* re.sub(pattern, '', t) from position i on: every match of one character or
\* more, left to right, is taken out.
SubFrom(pattern, t, i) ==
    CutAt(pattern, t, i, { p \in i..Len(t) : MatchEnd(pattern, t, p) > p })

Sub(pattern, t) == SubFrom(pattern, t, 1)

\* \s*, \d+, \d*, [月火水木金土日]
Ws == Star({"sp"})
D1 == Cat(<<Lit({"digit"}), Star({"digit"})>>)
D0 == Star({"digit"})
Wd == Lit(Weekdays)

\* _kara: から(?!揚|拭|し|あげ)
Kara ==
    Cat(<<Str(<<"kana_ka", "ra">>),
          NotAhead(Alt(<<Ch("age"), Ch("fuki"), Ch("shi"), Str(<<"a", "ge">>)>>))>>)

\* _p: (の_kara|のまでに|のまで|までに|に|_kara|まで|で|の)?
Particle ==
    Opt(Alt(<< Cat(<<Ch("no"), Kara>>), Str(<<"no", "ma", "de", "ni">>),
               Str(<<"no", "ma", "de">>), Str(<<"ma", "de", "ni">>), Ch("ni"), Kara,
               Str(<<"ma", "de">>), Ch("de"), Ch("no") >>))

\* _p_date: (_kara|までに|まで|に(?!ん|こ|が)|で(?!ん|か|き))?
DateParticle ==
    Opt(Alt(<< Kara, Str(<<"ma", "de", "ni">>), Str(<<"ma", "de">>),
               Cat(<<Ch("ni"), NotAhead(Lit({"n", "ko", "ga"}))>>),
               Cat(<<Ch("de"), NotAhead(Lit({"n", "kana_ka", "ki"}))>>) >>))

\* _t: (朝イチ|朝|夕方|深夜|夜|昼|正午|お昼)
TimeWords ==
    Alt(<< Str(<<"asa", "i", "chi">>), Ch("asa"), Str(Yugata), Str(Shinya), Ch("yoru"),
           Ch("hiru"), Str(Shogo), Str(Ohiru) >>)

\* \d*\s*時?\s*半?
HourTail == <<D0, Ws, Opt(Ch("ji")), Ws, Opt(Ch("han"))>>

\* \d*\s*時?\s*半?\s*\d*\s*分?\s*_p
ClockTail == HourTail \o <<Ws, D0, Ws, Opt(Ch("fun")), Ws, Particle>>

\* (_t\s*)?\d*\s*時?\s*半?\s*\d*\s*分?\s*_p
TimeTail == <<Opt(Cat(<<TimeWords, Ws>>))>> \o ClockTail

\* \d+\s*時\s*半?\s*\d*\s*分?\s*_p
StatedClock ==
    <<D1, Ws, Ch("ji"), Ws, Opt(Ch("han")), Ws, D0, Ws, Opt(Ch("fun")), Ws, Particle>>

\* 毎月\s*第\s*[\d,、]+\s*[月火水木金土日]\s*曜?日?\s*の?
EveryMonthNthOf ==
    << Str(<<"mai", "getsu">>), Ws, Ch("dai"), Ws, Lit({"digit", ",", "touten"}),
       Star({"digit", ",", "touten"}), Ws,
       Wd, Ws, Opt(Ch("you")), Opt(Ch("nichi")), Ws, Opt(Ch("no")) >>

\* 明々?後?日
NamedDay == <<Ch("mei"), Opt(Ch("noma")), Opt(Ch("go")), Ch("nichi")>>

\* (\s*の(?=\s*(\d|朝|昼|夕|夜|午|から|まで)))?
OfBeforeTime ==
    Opt(Cat(<< Ws, Ch("no"),
               Ahead(Cat(<<Ws, Alt(<<Lit({"digit", "asa", "hiru", "yuu", "yoru", "noon"}),
                                     Str(<<"kana_ka", "ra">>), Str(<<"ma", "de">>)>>)>>)) >>))

\* (の?\s*_t)?
OfTimeWord == Opt(Cat(<<Opt(Ch("no")), Ws, TimeWords>>))

\* patterns (lines 648-684)
ContentPatterns ==
    << Cat(EveryMonthNthOf \o <<Ws, Str(<<"zen", "nichi">>), Ws, Opt(Ch("no")), Ws>> \o TimeTail),
       Cat(EveryMonthNthOf \o <<Ws>> \o TimeTail),
       Cat(<<Str(<<"mai", "getsu">>), Ws, D1, Ws, Ch("nichi"), Ws, Opt(Ch("no")), Ws>> \o TimeTail),
       Cat(<<Alt(<<Str(<<"kaku", "shuu">>), Str(<<"mai", "shuu">>)>>), Ws, Opt(Wd), Ws,
             Opt(Ch("you")), Opt(Ch("nichi")), Ws, Opt(Ch("no")), Ws>> \o TimeTail),
       Cat(<<Ch("mai"), Alt(<<Ch("asa"), Ch("ban"), Cat(<<Ch("yuu"), Opt(Ch("kata"))>>),
                              Ch("nichi")>>), Ws, Opt(Ch("no")), Ws>> \o TimeTail),
       Cat(<<Str(<<"hei", "nichi">>), Ws, Opt(Ch("no")), Ws>> \o TimeTail),
       Cat(<<D1, Ws, Ch("nichi"), Ws, Ch("go"), Ws, Particle>>),
       Cat(<<D1, Ws, Ch("shuu"), Opt(Ch("kan")), Ws, Ch("go"), Ws, Particle>>),
       Cat(<<Str(<<"a", "to">>), Ws, D1, Ws, Ch("nichi"), Ws, Particle>>),
       Cat(<<D1, Ws, Str(<<"ji", "kan">>), Ws, Opt(Ch("han")), Ws, Ch("go"), Ws, Particle>>),
       Cat(<<D1, Ws, Ch("fun"), Ws, Ch("go"), Ws, Particle>>),
       Cat(<<Str(<<"a", "to">>), Ws, D1, Ws, Alt(<<Ch("fun"), Str(<<"ji", "kan">>)>>), Ws, Particle>>),
       Cat(NamedDay \o <<Ws, Opt(Ch("no")), Ws, Opt(TimeWords), Ws>> \o StatedClock),
       Cat(<<Str(<<"kon", "nichi">>), Ws, Opt(Ch("no")), Ws, Opt(TimeWords), Ws>> \o StatedClock),
       Cat(NamedDay \o <<Ws, Opt(Ch("no")), Ws, TimeWords, Ws, Particle>>),
       Cat(<<Str(<<"kon", "nichi">>), Ws, Opt(Ch("no")), Ws, TimeWords, Ws, Particle>>),
       Cat(NamedDay \o <<OfBeforeTime, Ws, DateParticle>>),
       Cat(<<Str(<<"kon", "nichi">>), OfBeforeTime, Ws, DateParticle>>),
       Cat(<<Alt(<<Ch("kon"), Ch("rai"), Str(<<"sai", "rai">>)>>), Ch("shuu"), Ws,
             Opt(Alt(<<Ch("matsu"),
                       Cat(<<Opt(Ch("no")), Ws, Wd, Ws, Opt(Ch("you")), Opt(Ch("nichi"))>>)>>)),
             Ws, OfTimeWord, Ws>> \o HourTail \o <<Ws, Particle>>),
       Cat(<<Alt(<<Ch("tsugi"), Str(<<"kon", "tabi">>)>>), Ws, Opt(Ch("no")), Ws, Wd, Ws,
             Opt(Ch("you")), Opt(Ch("nichi")), Ws, OfTimeWord, Ws>> \o HourTail \o <<Ws, Particle>>),
       Cat(<<Str(<<"sai", "rai", "getsu">>), Ws,
             Opt(Alt(<<Ch("matsu"), Ch("sho"), Cat(<<D1, Ws, Ch("nichi")>>)>>)),
             Ws, Opt(Ch("no")), Ws>> \o TimeTail),
       Cat(<<Alt(<<Ch("kon"), Ch("rai")>>), Ch("getsu"), Ws, D1, Ws, Ch("nichi"), Ws,
             Opt(Ch("no")), Ws>> \o TimeTail),
       Cat(<<D1, Ws, Ch("getsu"), Ws, D1, Ws, Ch("nichi"), Ws, OfTimeWord, Ws>> \o ClockTail),
       Cat(<<Opt(Alt(<<Ch("kon"), Ch("rai")>>)), Ch("getsu"), Ws,
             Opt(Alt(<<Ch("matsu"), Ch("sho")>>)), Ws, Opt(Ch("no")), Ws, Opt(TimeWords), Ws,
             D0, Ws, Opt(Ch("ji")), Ws, Particle>>),
       Cat(<<Str(Gozen), Ws>> \o StatedClock),
       Cat(<<Str(Gogo), Ws>> \o StatedClock),
       Cat(StatedClock),
       Cat(<<TimeWords,
             Ahead(Alt(<<Lit({"sp", "ni", "de", "no", "digit"}), Str(<<"kana_ka", "ra">>),
                         Str(<<"ma", "de">>), AtEnd>>)),
             Ws, Particle>>),
       Cat(<<Str(<<"shuu", "matsu">>), Ws, Particle>>) >>

RECURSIVE SubRange(_, _, _, _)
\* The patterns lo..hi applied in order: the first half of them, then the
\* second half on what the first half left.
SubRange(patterns, lo, hi, content) ==
    IF lo > hi THEN content
    ELSE IF lo = hi THEN Sub(patterns[lo], content)
    ELSE CHOOSE rest \in { SubRange(patterns, (lo + hi) \div 2 + 1, hi, left) :
                              left \in {SubRange(patterns, lo, (lo + hi) \div 2, content)} } : TRUE

\* for pattern in patterns: content = re.sub(pattern, '', content)
SubAll(patterns, content) == SubRange(patterns, 1, Len(patterns), content)

\* The content from position end on, whole when end is -1.
DropTo(content, end) ==
    IF end = -1 THEN content ELSE SubSeq(content, end, Len(content))

\* re.sub(r'^[のにでへ]\s+', '', content)
StripLeadingParticle(content) ==
    DropTo(content, MatchEnd(Cat(<<Lit({"no", "ni", "de", "he"}), Lit({"sp"}), Ws>>), content, 1))

\* re.sub(r'\s+', ' ', content): of a run of spaces the last one is kept.
Collapse(content) ==
    Pick(content, { j \in 1..Len(content) :
                        ~(content[j].t = "sp" /\ j < Len(content) /\ content[j + 1].t = "sp") })

\* content.strip() of a collapsed content
Strip(content) ==
    SubSeq(content,
           IF content # <<>> /\ content[1].t = "sp" THEN 2 ELSE 1,
           IF Len(content) >= 2 /\ content[Len(content)].t = "sp"
           THEN Len(content) - 1 ELSE Len(content))

\* Line 693 without the fallback to the input.
OrInput_Never(content, input) == content

\* return content if content else user_input
OrInput(content, input) == IF content # <<>> THEN content ELSE input

\* Lines 691-693: what becomes of the content the patterns left.
Tidied(content, input) ==
    OrInput(Strip(Collapse(StripLeadingParticle(content))), input)

\* extract_content(user_input)
extract_content(input) ==
    CHOOSE result \in { Tidied(content, input) :
                            content \in {SubAll(ContentPatterns, normalize_numbers(input))} } : TRUE

-----------------------------------------------------------------------------
(* parse_repeat_pattern on a text, continued: the time expression is read   *)
(* in the text without its content.                                         *)

\* Lines 112-113: text.replace(content, '') if content != user_input else text
TimeTextOf(input, t, content) == IF content # input THEN Replace(t, content) ELSE t

time_text(input) ==
    TimeTextOf(input, normalize_numbers(input), extract_content(input))

\* The match the ordinals and the weekday are taken from: the one of the
\* branch taken (lines 166 and 178).
EveryMonthNthMatch(t, cadence) ==
    IF cadence = "maitsuki_dai_zenjitsu"
    THEN Search(t, EveryMonthNth \o <<Spaces, Maybe("no"), Spaces, One("zen"), One("nichi")>>)
    ELSE Search(t, EveryMonthNth)

PhraseOfCadence(t, tt, cadence, nth) ==
    PhraseRead(cadence, nth,
               Search(t, Word(<<"mai", "getsu">>) \o <<Spaces, Digits, Spaces, One("nichi")>>),
               WeekdayRead(cadence, nth,
                           Search(t, Word(<<"kaku", "shuu">>) \o <<Spaces, OneOf(Weekdays)>>),
                           Search(t, Word(<<"mai", "shuu">>) \o <<Spaces, OneOf(Weekdays)>>)),
               TimeOf(HourText(tt, cadence)), TimeOf(tt))

\* The groups of the branch taken and the time expression of time_text.
PhraseIn(t, tt) == PhraseOfCadence(t, tt, CadenceOf(t), EveryMonthNthMatch(t, CadenceOf(t)))

\* Lines 110-113: the patterns are matched in the normalised text, the time
\* of day is read in time_text.
PhraseOf(input) == PhraseIn(normalize_numbers(input), time_text(input))

-----------------------------------------------------------------------------
(* Specification of one call of parse_reminder_input: the detector, then    *)
(* the resolver, then the LLM fallback.                                     *)

\* Bound: the largest count of a relative offset.
MaxOffset == 3

\* A count that carries hours, days and weeks past the year 9999, and
\* minutes to the year 2176.
LargeOffset == 80000000

\* The reminder's content after the date and time expression: に 会議
Content == Chars(<<"ni", "sp", "x", "x">>)

\* Time expressions: none, 9時, 夜9時半, 午後6時45分, 25時.
TimeTexts ==
    { Text(te) :
        te \in { <<>>,
                 <<Num(9), Tok("ji")>>,
                 <<Tok("yoru"), Num(9), Tok("ji"), Tok("han")>>,
                 <<Tok("noon"), Tok("go"), Num(6), Tok("ji"), Num(45), Tok("fun")>>,
                 <<Num(25), Tok("ji")>> } }

\* The relative-offset phrases of the count k, under the unit each states:
\* N時間半後; N時間後, あとN時間; N分後, あとN分; N日後, あとN日; N週間後, N週後
RelativeTextsOf(k) ==
    [half_hours |-> { DigitsOf(k) \o Chars(<<"ji", "kan", "han", "go">>) },
     hours |-> { DigitsOf(k) \o Chars(<<"ji", "kan", "go">>),
                 Chars(<<"a", "to">>) \o DigitsOf(k) \o Chars(<<"ji", "kan">>) },
     minutes |-> { DigitsOf(k) \o Chars(<<"fun", "go">>),
                   Chars(<<"a", "to">>) \o DigitsOf(k) \o Chars(<<"fun">>) },
     days |-> { DigitsOf(k) \o Chars(<<"nichi", "go">>),
                Chars(<<"a", "to">>) \o DigitsOf(k) \o Chars(<<"nichi">>) },
     weeks |-> { DigitsOf(k) \o Chars(<<"shuu", "kan", "go">>),
                 DigitsOf(k) \o Chars(<<"shuu", "go">>) }]

\* The counts of the relative-offset phrases.
Offsets == 1..MaxOffset \cup {LargeOffset}

RelativeTexts ==
    UNION { RelativeTextsOf(k)[unit] : k \in Offsets, unit \in DOMAIN RelativeTextsOf(1) }

\* 明々後日, しあさって, 明後日, 明日, 今日, each with every time expression.
NamedDayTexts ==
    { Chars(d) \o te :
        d \in { <<"mei", "noma", "go", "nichi">>, <<"shi", "a", "sa", "tsu", "te">>,
                <<"mei", "go", "nichi">>, <<"mei", "nichi">>, <<"kon", "nichi">> },
        te \in TimeTexts }

\* 来週末, 今週末, 週末
WeekendTexts ==
    { Chars(<<"rai", "shuu", "matsu">>), Chars(<<"kon", "shuu", "matsu">>),
      Chars(<<"shuu", "matsu">>) }

\* 再来月末, 再来月初, 再来月, 来月末, 月末, 今月末, 来月初, 月初
MonthBoundaryTexts ==
    { Chars(<<"sai", "rai", "getsu", "matsu">>), Chars(<<"sai", "rai", "getsu", "sho">>),
      Chars(<<"sai", "rai", "getsu">>), Chars(<<"rai", "getsu", "matsu">>),
      Chars(<<"getsu", "matsu">>), Chars(<<"kon", "getsu", "matsu">>),
      Chars(<<"rai", "getsu", "sho">>), Chars(<<"getsu", "sho">>) }

\* The days of an explicit day of the month.
ExplicitDays == {0, 1, 29, 30, 31, 32}

\* 再来月N日, 来月N日, 今月N日
ExplicitDayTexts ==
    { Chars(q) \o DigitsOf(d) \o Chars(<<"nichi">>) :
        q \in { <<"sai", "rai", "getsu">>, <<"rai", "getsu">>, <<"kon", "getsu">> },
        d \in ExplicitDays }

\* 再来週の火曜日, 来週の火曜日, 今週の火曜日, 次の火曜日, 今度の火曜日, and 日曜
WeekdayTexts ==
    { Chars(q) \o Chars(<<"no", w, "you", "nichi">>) :
        q \in { <<"sai", "rai", "shuu">>, <<"rai", "shuu">>, <<"kon", "shuu">>,
                <<"tsugi">>, <<"kon", "tabi">> },
        w \in {"ka", "nichi"} }

\* M月D日: 1月1日, 2月29日, 2月30日, 4月31日, 12月25日, 13月1日
MonthDayTexts ==
    { Text(<<Num(md[1]), Tok("getsu"), Num(md[2]), Tok("nichi")>> \o te) :
        md \in { <<1, 1>>, <<2, 29>>, <<2, 30>>, <<4, 31>>, <<12, 25>>, <<13, 1>> },
        te \in {<<>>, <<Num(25), Tok("ji")>>} }

\* 正午, お昼, 深夜, 午前9時, 午前9時半, 9時15分, 朝, 昼, 夕方, 夜, and the time expressions
TimeOnlyTexts ==
    (TimeTexts \ {<<>>})
        \cup { Chars(<<"sei", "noon">>), Chars(<<"o", "hiru">>), Chars(<<"shin", "yoru">>),
               Text(<<Tok("noon"), Tok("zen"), Num(9), Tok("ji")>>),
               Text(<<Tok("noon"), Tok("zen"), Num(9), Tok("ji"), Tok("han")>>),
               Text(<<Num(9), Tok("ji"), Num(15), Tok("fun")>>),
               Chars(<<"asa">>), Chars(<<"hiru">>), Chars(<<"yuu", "kata">>),
               Chars(<<"yoru">>) }

\* Phrases of two families: 再来月10日の月末, 来月5日の月初, 明日の月末, 3日後の明日,
\* 今月20日の来月末, 来週の火曜日5月3日, 5月3日の夜
MixedTexts ==
    { Text(e) :
        e \in { Chars(<<"sai", "rai", "getsu">>) \o <<Num(10)>>
                    \o Chars(<<"nichi", "no", "getsu", "matsu">>),
                Chars(<<"rai", "getsu">>) \o <<Num(5)>> \o Chars(<<"nichi", "no", "getsu", "sho">>),
                Chars(<<"mei", "nichi", "no", "getsu", "matsu">>),
                <<Num(3)>> \o Chars(<<"nichi", "go", "no", "mei", "nichi">>),
                Chars(<<"kon", "getsu">>) \o <<Num(20)>>
                    \o Chars(<<"nichi", "no", "rai", "getsu", "matsu">>),
                Chars(<<"rai", "shuu", "no", "ka", "you", "nichi">>)
                    \o <<Num(5), Tok("getsu"), Num(3), Tok("nichi")>>,
                <<Num(5), Tok("getsu"), Num(3), Tok("nichi")>> \o Chars(<<"no", "yoru">>) } }

\* Recurring phrases: 毎週火曜日18時, 毎月31日, 毎月第5火曜日, 毎月第500000火曜,
\* 毎朝, 毎日, 平日25時
RecurringTexts ==
    { Text(e) :
        e \in { Chars(<<"mai", "shuu", "ka", "you", "nichi">>) \o <<Num(18), Tok("ji")>>,
                Chars(<<"mai", "getsu">>) \o <<Num(31)>> \o Chars(<<"nichi">>),
                Chars(<<"mai", "getsu", "dai">>) \o <<Num(5)>> \o Chars(<<"ka", "you", "nichi">>),
                Chars(<<"mai", "getsu", "dai">>) \o <<Num(LargeNth)>> \o Chars(<<"ka", "you">>),
                Chars(<<"mai", "asa">>), Chars(<<"mai", "nichi">>),
                Chars(<<"hei", "nichi">>) \o <<Num(25), Tok("ji")>> } }

\* Recurring phrases whose content holds a digit or a time word, or that
\* name two ordinal weekdays: 毎日8時に8, 毎日18時に8, 毎日10時に0,
\* 毎日118時に18, 毎月21日に1, 毎日８時, 毎日８時に議, ３日後 議, ８議,
\* 毎日8時に夜議, 毎朝 議夜議,
\* 毎月第1火曜 毎月第2水曜の前日, 毎月第2,4金曜, 毎月第2、4金曜の前日 議,
\* 毎日１８時, 毎晩夜午前9時, 月午前11時半, 明日の夜午前9時, 午前9時半,
\* 1あと2日0時
ContentTimeTexts ==
    { Text(t) :
        t \in { Chars(<<"mai", "nichi">>) \o <<Num(8), Tok("ji"), Tok("ni"), Num(8)>>,
                Chars(<<"mai", "nichi">>) \o <<Num(18), Tok("ji"), Tok("ni"), Num(8)>>,
                Chars(<<"mai", "nichi">>) \o <<Num(10), Tok("ji"), Tok("ni"), Num(0)>>,
                Chars(<<"mai", "nichi">>) \o <<Num(118), Tok("ji"), Tok("ni"), Num(18)>>,
                Chars(<<"mai", "getsu">>) \o <<Num(21), Tok("nichi"), Tok("ni"), Num(1)>>,
                Chars(<<"mai", "nichi">>) \o <<Zen(8), Tok("ji")>>,
                Chars(<<"mai", "nichi">>) \o <<Zen(8), Tok("ji"), Tok("ni"), Tok("x")>>,
                <<Zen(3)>> \o Chars(<<"nichi", "go", "sp", "x">>),
                <<Zen(8), Tok("x")>>,
                Chars(<<"mai", "nichi">>) \o <<Num(8), Tok("ji"), Tok("ni"), Tok("yoru"), Tok("x")>>,
                Chars(<<"mai", "asa", "sp", "x", "yoru", "x">>),
                Chars(<<"mai", "getsu", "dai">>) \o <<Num(1)>> \o Chars(<<"ka", "you", "sp">>)
                    \o Chars(<<"mai", "getsu", "dai">>) \o <<Num(2)>>
                    \o Chars(<<"sui", "you", "no", "zen", "nichi">>),
                Chars(<<"mai", "getsu", "dai">>) \o <<Num(2), Tok(","), Num(4)>>
                    \o Chars(<<"kin", "you">>),
                Chars(<<"mai", "getsu", "dai">>) \o <<Num(2), Tok("touten"), Num(4)>>
                    \o Chars(<<"kin", "you", "no", "zen", "nichi", "sp", "x">>),
                Chars(<<"mai", "nichi">>) \o <<Zen(1), Zen(8), Tok("ji")>>,
                Chars(<<"mai", "ban", "yoru", "noon", "zen">>) \o <<Num(9), Tok("ji")>>,
                Chars(<<"getsu", "noon", "zen">>) \o <<Num(11), Tok("ji"), Tok("han")>>,
                Chars(<<"mei", "nichi", "no", "yoru", "noon", "zen">>) \o <<Num(9), Tok("ji")>>,
                Chars(<<"noon", "zen">>) \o <<Num(9), Tok("ji"), Tok("han")>>,
                <<Num(1), Tok("a"), Tok("to"), Num(2), Tok("nichi"), Num(0), Tok("ji")>> } }

\* The inputs: each expression followed by the content, a text without any
\* expression, and the texts of ContentTimeTexts.
Texts ==
    { e \o Content :
        e \in RelativeTexts \cup NamedDayTexts \cup WeekendTexts \cup MonthBoundaryTexts
              \cup ExplicitDayTexts \cup WeekdayTexts \cup MonthDayTexts \cup TimeOnlyTexts
              \cup MixedTexts \cup RecurringTexts \cup {<<>>} }
        \cup ContentTimeTexts

\* The instants of the calls: from 25 December to 31 January, at 09:00:00 and at
\* 21:30:00.000001.
Instants ==
    { At(FromOrdinal(o), tod) :
        o \in ToOrdinal(StartYear, 12, 25)..ToOrdinal(StartYear + 1, 1, 31),
        tod \in NowTimes }

\* extract_content of each input (lines 745 and 769), computed once.
Contents == [t \in Texts |-> extract_content(t)]

\* What parse_repeat_pattern reads in each input (lines 110-113), computed
\* once.
PhraseOfText == [t \in Texts |-> PhraseOf(t)]

\* Midnight of a date.
Midnight == [hour |-> 0, minute |-> 0, second |-> 0, microsecond |-> 0]

\* A datetime that carries a UTC offset of its own, in minutes: fromisoformat
\* keeps the offset of the string, and only a naive result gets the zone of
\* the bot (lines 723-727).
WithOffset(dt, minutes) ==
    [year |-> dt.year, month |-> dt.month, day |-> dt.day, hour |-> dt.hour,
     minute |-> dt.minute, second |-> dt.second, microsecond |-> dt.microsecond,
     utcoffset |-> minutes]

\* What parse_datetime_llm can return (lines 720-734): nothing, or whatever
\* datetime the tool call of the LLM names, which nothing compares with now:
\* a later one, an earlier one, one of years ago, one with another offset.
LlmAnswers(n) ==
    { None, AddDays(n, 1), AddDays(n, 0 - 1), At(DateTime(2020, 1, 1), Midnight),
      WithOffset(At(AddDays(n, 0 - 1), Midnight), 0) }

\* The call after the detector: its exception, the next stage, or its result.
AfterDetector(repeat_result, content) ==
    IF Raised(repeat_result) THEN [answer |-> repeat_result, stage |-> "raised"]
    ELSE IF repeat_result = None THEN [answer |-> None, stage |-> "resolver"]
    ELSE [answer |-> [content |-> content,
                      datetime |-> repeat_result.remind_at,
                      repeat_type |-> repeat_result.repeat_type,
                      repeat_value |-> repeat_result.repeat_value],
          stage |-> "returned"]

\* AfterResolver asking the LLM whatever the resolver returned.
AfterResolver_AlwaysFallback(remind_at, content) ==
    IF Raised(remind_at) THEN [answer |-> remind_at, stage |-> "raised"]
    ELSE IF remind_at = None THEN [answer |-> None, stage |-> "fallback"]
    ELSE [answer |-> [content |-> content, datetime |-> remind_at], stage |-> "fallback"]

\* The call after the resolver: its exception, the next stage, or its result.
AfterResolver(remind_at, content) ==
    IF Raised(remind_at) THEN [answer |-> remind_at, stage |-> "raised"]
    ELSE IF remind_at = None THEN [answer |-> None, stage |-> "fallback"]
    ELSE [answer |-> [content |-> content, datetime |-> remind_at], stage |-> "returned"]

ResolveInit ==
    /\ user_input \in Texts
    /\ instant \in Instants
    /\ answer = None
    /\ stage = "start"
    /\ calls = <<>>
    /\ IdleAdvance /\ IdleDetector /\ IdleScheduler /\ IdleMain

\* Lines 743-751: the detector; its result, when there is one, is returned.
RunDetector ==
    /\ stage = "start"
    /\ \E after \in {AfterDetector(parse_repeat_pattern(PhraseOfText[user_input], instant), Contents[user_input])} :
            answer' = after.answer /\ stage' = after.stage
    /\ calls' = Append(calls, "parse_repeat_pattern")
    /\ UNCHANGED <<user_input, instant, avars, dvars, svars, mvars>>

\* Lines 754-757 and 766-774: the resolver; its datetime is returned.
RunResolver ==
    /\ stage = "resolver"
    /\ \E after \in {AfterResolver(parse_datetime_pattern(user_input, instant), Contents[user_input])} :
            answer' = after.answer /\ stage' = after.stage
    /\ calls' = Append(calls, "parse_datetime_pattern")
    /\ UNCHANGED <<user_input, instant, avars, dvars, svars, mvars>>

\* Lines 757-767: the LLM, asked when the resolver returned None.
RunFallback(llm) ==
    /\ stage = "fallback"
    /\ answer' = IF llm = None THEN None ELSE [content |-> Contents[user_input], datetime |-> llm]
    /\ stage' = "returned"
    /\ calls' = Append(calls, "parse_datetime_llm")
    /\ UNCHANGED <<user_input, instant, avars, dvars, svars, mvars>>

ResolveNext ==
    \/ RunDetector
    \/ RunResolver
    \/ \E llm \in LlmAnswers(instant) : RunFallback(llm)

SpecResolve == ResolveInit /\ [][ResolveNext]_vars

-----------------------------------------------------------------------------
(* Specification of one call of extract_content.                            *)

\* The expressions of the inputs without a content after them.
BareTexts ==
    (RelativeTexts \cup NamedDayTexts \cup WeekendTexts \cup MonthBoundaryTexts
        \cup ExplicitDayTexts \cup WeekdayTexts \cup MonthDayTexts \cup TimeOnlyTexts
        \cup MixedTexts \cup RecurringTexts) \ {<<>>}

\* Contents that begin like a particle: 明日にんじん, 明日から揚げ, 今日でんわ,
\* 明日の 会議, 明日までに, and spaces only.
GuardedTexts ==
    { Chars(<<"mei", "nichi", "ni", "n", "x">>),
      Chars(<<"mei", "nichi", "kana_ka", "ra", "age", "ge">>),
      Chars(<<"kon", "nichi", "de", "n", "x">>),
      Chars(<<"mei", "nichi", "no", "sp", "x">>),
      Chars(<<"mei", "nichi", "ma", "de", "ni">>),
      Chars(<<"sp", "sp">>) }

\* The inputs of extract_content: the inputs of parse_reminder_input, the
\* expressions alone, the guarded contents and the empty input.
ContentTexts == Texts \cup BareTexts \cup GuardedTexts \cup {<<>>}

ContentInit ==
    /\ user_input \in ContentTexts
    /\ instant = None
    /\ answer = None
    /\ stage = "content"
    /\ calls = <<>>
    /\ IdleAdvance /\ IdleDetector /\ IdleScheduler /\ IdleMain

\* Lines 686-693: one call of extract_content on the input.
ExtractContent ==
    /\ stage = "content"
    /\ answer' = [content |-> extract_content(user_input)]
    /\ stage' = "returned"
    /\ calls' = Append(calls, "extract_content")
    /\ UNCHANGED <<user_input, instant, avars, dvars, svars, mvars>>

ContentNext == ExtractContent

SpecContent == ContentInit /\ [][ContentNext]_vars

-----------------------------------------------------------------------------
(* Specification of one call of parse_datetime_pattern, at every hour of    *)
(* the day and in every month of a common and of a leap year.               *)

\* 今日 with every time expression.
TodayTexts == { Chars(<<"kon", "nichi">>) \o te : te \in TimeTexts }

\* A bare hour beside a time-of-day word: 夜9時 and 夕方5時30分 alone, 朝9時,
\* and 夜9時 after 明日, 3日後, 週末, 月末, 来月5日, 来週の火曜日, 5月3日の.
EveningTexts ==
    { Text(<<Tok("yoru"), Num(9), Tok("ji")>>),
      Text(Chars(<<"yuu", "kata">>) \o <<Num(5), Tok("ji"), Num(30), Tok("fun")>>),
      Text(<<Tok("asa"), Num(9), Tok("ji")>>) }
    \cup
    { Text(q \o <<Tok("yoru"), Num(9), Tok("ji")>>) :
        q \in { Chars(<<"mei", "nichi">>),
                <<Num(3)>> \o Chars(<<"nichi", "go">>),
                Chars(<<"shuu", "matsu">>),
                Chars(<<"getsu", "matsu">>),
                Chars(<<"rai", "getsu">>) \o <<Num(5)>> \o Chars(<<"nichi">>),
                Chars(<<"rai", "shuu", "no", "ka", "you", "nichi">>),
                <<Num(5), Tok("getsu"), Num(3), Tok("nichi"), Tok("no")>> } }

\* The phrases that state a time of day, with 今日 or alone.
ClockTexts == TimeOnlyTexts \cup TodayTexts \cup EveningTexts

\* The first and the last day of every month of StartYear and of the year
\* after it.
PatternDates ==
    UNION { { DateTime(ym[1], ym[2], 1),
              DateTime(ym[1], ym[2], DaysInMonth(ym[1], ym[2])) } :
            ym \in (StartYear..(StartYear + 1)) \X (1..12) }

\* Every hour of the day on the hour, and the two times of NowTimes.
PatternTimes ==
    { [hour |-> h, minute |-> 0, second |-> 0, microsecond |-> 0] : h \in 0..23 }
        \cup NowTimes

\* The first and the last day of December, January, February and March: the
\* turn of the year, the end of February and the ends of months of 31 days.
TurnDates ==
    { d \in PatternDates :
        \/ d.year = StartYear /\ d.month = 12
        \/ d.year = StartYear + 1 /\ d.month \in 1..3 }

\* The calls: a month boundary followed by the content on every date, a
\* phrase of ClockTexts followed by the content on the dates of TurnDates, at
\* every time of PatternTimes.
PatternCalls ==
    { <<e \o Content, At(d, tod)>> :
        e \in MonthBoundaryTexts, d \in PatternDates, tod \in PatternTimes }
    \cup { <<e \o Content, At(d, tod)>> :
             e \in ClockTexts, d \in TurnDates, tod \in PatternTimes }

PatternInit ==
    /\ \E call \in PatternCalls : user_input = call[1] /\ instant = call[2]
    /\ answer = None
    /\ stage = "pattern"
    /\ calls = <<>>
    /\ IdleAdvance /\ IdleDetector /\ IdleScheduler /\ IdleMain

\* One call of parse_datetime_pattern(user_input, now, tz): answer is the
\* datetime returned, None, or the exception raised.
RunPattern ==
    /\ stage = "pattern"
    /\ \E remind_at \in {parse_datetime_pattern(user_input, instant)} :
            /\ answer' = remind_at
            /\ stage' = IF Raised(remind_at) THEN "raised" ELSE "returned"
    /\ calls' = Append(calls, "parse_datetime_pattern")
    /\ UNCHANGED <<user_input, instant, avars, dvars, svars, mvars>>

PatternNext == RunPattern

SpecPattern == PatternInit /\ [][PatternNext]_vars

-----------------------------------------------------------------------------
(* Properties of the calculator, checked under SpecAdvance.                 *)

SameWallClock(a, b) ==
    /\ a.hour = b.hour /\ a.minute = b.minute
    /\ a.second = b.second /\ a.microsecond = b.microsecond

\* The month k months after month m of year y, by month index.
MonthPlus(y, m, k) ==
    LET i == y * 12 + (m - 1) + k IN [year |-> i \div 12, month |-> (i % 12) + 1]

\* dt is the nth weekday wd of its month: the right weekday, in the nth
\* block of seven days of the month.
IsNthWeekday(dt, n, wd) == Weekday(dt) = wd /\ (dt.day - 1) \div 7 = n - 1

\* C1: for every fired occurrence, whatever its weekday, the weekdays
\* cadence returns a timestamp that is neither a Saturday nor a Sunday.
C1_WeekdaysNeverWeekend ==
    (aphase = "done" /\ rule.repeat_type = "weekdays")
        => (nxt # None /\ Weekday(nxt) \notin {5, 6})

\* A Saturday occurrence was advanced and Monday came out.
C1_Witness ==
    /\ aphase = "done" /\ rule.repeat_type = "weekdays"
    /\ Weekday(cur) = 5 /\ nxt # None /\ Weekday(nxt) = 0

\* C2: a monthly rule with a digit value advances day d of month M to day d
\* of month M+1 at the same wall-clock time when that day exists, and to the
\* last day of month M+1 otherwise; it never lands in month M+2.
C2_MonthlyDayClamp ==
    (aphase = "done" /\ rule.repeat_type = "monthly" /\ rule.repeat_value \in DayValues)
        => LET nm == MonthPlus(cur.year, cur.month, 1)
               last == DaysInMonth(nm.year, nm.month)
           IN  /\ nxt # None
               /\ nxt.year = nm.year /\ nxt.month = nm.month
               /\ nxt.day = IF cur.day <= last THEN cur.day ELSE last
               /\ SameWallClock(nxt, cur)

\* January 31st of a leap year was advanced to February 29th.
C2_Witness ==
    /\ aphase = "done" /\ rule = Rule("monthly", FormatDay(31))
    /\ cur.month = 1 /\ cur.day = 31
    /\ nxt # None /\ nxt.month = 2 /\ nxt.day = 29

\* C3 as stated: a monthly rule with digit value N keeps targeting day N.
\* From an occurrence on day N, or on the last day of a month that lacks
\* day N, the next occurrence is on day N of the following month, or on its
\* last day when it lacks day N.
C3_KeepsTargetDay ==
    (/\ aphase = "done" /\ rule.repeat_type = "monthly" /\ rule.repeat_value \in DayValues
     /\ LET N == rule.repeat_value[1].v
            last == DaysInMonth(cur.year, cur.month)
        IN  cur.day = IF N <= last THEN N ELSE last)
        => LET N == rule.repeat_value[1].v
               last == DaysInMonth(nxt.year, nxt.month)
           IN  nxt # None /\ nxt.day = IF N <= last THEN N ELSE last

\* C5: for a single ordinal n in 1..4 and a weekday w, the occurrence that
\* is the n-th w of month M advances to the n-th w of month M+1 at the same
\* wall-clock time, December included.
C5_NthWeekdayNextMonth ==
    (aphase = "done" /\ rule.repeat_type = "monthly")
        => \A r \in { x \in NthRuleIndex : Len(x.nths) = 1 /\ x.nths[1] \in 1..4 /\ ~x.prev } :
              (rule.repeat_value = r.value /\ IsNthWeekday(cur, r.nths[1], r.wd))
                 => LET nm == MonthPlus(cur.year, cur.month, 1)
                    IN  /\ nxt # None
                        /\ nxt.year = nm.year /\ nxt.month = nm.month
                        /\ IsNthWeekday(nxt, r.nths[1], r.wd)
                        /\ SameWallClock(nxt, cur)

\* The 3rd Tuesday of a December was advanced to the 3rd Tuesday of January.
C5_Witness ==
    /\ aphase = "done"
    /\ rule = Rule("monthly", FormatNth(<<3>>, "ka", FALSE))
    /\ IsNthWeekday(cur, 3, 1) /\ cur.month = 12
    /\ nxt # None /\ nxt.month = 1 /\ nxt.year = cur.year + 1 /\ IsNthWeekday(nxt, 3, 1)

\* The ordinal-weekday dates of the rule in the fired occurrence's month and
\* the two months after it (for each ordinal n, the day of the month's n-th
\* block of seven days that falls on the weekday, when the month has it),
\* shifted by offset days, at the occurrence's wall-clock time, that lie
\* strictly after the occurrence.
LaterOrdinalDates(current, nths, wd, offset) ==
    LET days == { kid \in (0..2) \X (1..Len(nths)) \X (1..7) :
                    LET mm == MonthPlus(current.year, current.month, kid[1])
                        d  == 7 * (nths[kid[2]] - 1) + kid[3]
                    IN  /\ d <= DaysInMonth(mm.year, mm.month)
                        /\ IsNthWeekday(DateTime(mm.year, mm.month, d), nths[kid[2]], wd) }
        shifted == { LET mm == MonthPlus(current.year, current.month, kid[1])
                         d  == 7 * (nths[kid[2]] - 1) + kid[3]
                     IN  WithTimeOf(AddDays(DateTime(mm.year, mm.month, d), offset), current) :
                     kid \in days }
    IN  { c \in shifted : Before(current, c) }

\* C6: for a list of ordinals, with or without the day-before marker, the
\* calculator returns the earliest of those dates, and no next occurrence
\* when there is none.
C6_OrdinalSearchMinimum ==
    (aphase = "done" /\ rule.repeat_type = "monthly")
        => \A r \in NthRuleIndex :
              (rule.repeat_value = r.value)
                 => LET later == LaterOrdinalDates(cur, r.nths, r.wd, IF r.prev THEN -1 ELSE 0)
                    IN  IF later = {} THEN nxt = None
                        ELSE /\ nxt \in later
                             /\ \A c \in later : ~Before(c, nxt)

\* A list of two ordinals with the day-before marker, fired late in a month
\* whose successor starts on a Monday: the day before next month's 1st Monday
\* is the last day of the fired occurrence's own month.
C6_Witness ==
    /\ aphase = "done"
    /\ rule = Rule("monthly", FormatNth(<<1, 3>>, "getsu", TRUE))
    /\ nxt # None /\ Weekday(nxt) = 6
    /\ nxt.day = DaysInMonth(nxt.year, nxt.month)
    /\ nxt.month = cur.month /\ cur.day < nxt.day

\* C9: daily, weekly and biweekly rules return the fired occurrence plus
\* exactly 1, 7 and 14 days at the same wall-clock time, whatever the value.
C9_FixedPeriods ==
    \A k \in {1, 7, 14} :
        (/\ aphase = "done"
         /\ rule.repeat_type = (IF k = 1 THEN "daily" ELSE IF k = 7 THEN "weekly" ELSE "biweekly"))
            => /\ nxt # None
               /\ Ordinal(nxt) = Ordinal(cur) + k
               /\ SameWallClock(nxt, cur)

\* A biweekly occurrence late in December was advanced into January.
C9_Witness ==
    /\ aphase = "done" /\ rule.repeat_type = "biweekly"
    /\ cur.month = 12 /\ cur.day = 25
    /\ nxt # None /\ nxt.month = 1 /\ nxt.day = 8 /\ nxt.year = cur.year + 1

\* ---------------------------------------------------------------------------
\* Properties of the recurrence detector, checked under SpecDetect
\* ---------------------------------------------------------------------------

\* The detector ran on a "every month, day N" phrase whose day N is missing
\* from the month of now.
MissingDayCase ==
    /\ dphase = "done"
    /\ phrase.cadence = "maitsuki_nichi"
    /\ phrase.day \in 1..31
    /\ ~ValidDate(now.year, now.month, phrase.day)

\* The time of day stated in the phrase is one make_dt accepts.
TimeAccepted ==
    /\ extract_hour(phrase, 9) \in 0..23
    /\ extract_minute(phrase) \in 0..59

\* C4 as stated: for "every month, day N" with day N missing from the current
\* month, the detector returns {monthly, "N"} with the first occurrence on the
\* last day of the current month.
C4_FirstOccurrenceClampedThisMonth ==
    (MissingDayCase /\ TimeAccepted) =>
        /\ parsed \notin {None, ValueError, OverflowError}
        /\ parsed.repeat_type = "monthly"
        /\ parsed.repeat_value = FormatDay(phrase.day)
        /\ parsed.remind_at.year = now.year
        /\ parsed.remind_at.month = now.month
        /\ parsed.remind_at.day = DaysInMonth(now.year, now.month)

\* C4 amended: for "every month, day N" with day N missing from the current
\* month, the detector returns {monthly, "N"} with the first occurrence on
\* day N of the following month, at the stated time of day (09:00 by default);
\* it returns nothing only when the stated time of day is rejected.
C4_FirstOccurrenceNextMonth ==
    MissingDayCase =>
        IF TimeAccepted
        THEN /\ parsed \notin {None, ValueError, OverflowError}
             /\ parsed.repeat_type = "monthly"
             /\ parsed.repeat_value = FormatDay(phrase.day)
             /\ parsed.remind_at =
                    [year |-> MonthPlus(now.year, now.month, 1).year,
                     month |-> MonthPlus(now.year, now.month, 1).month,
                     day |-> phrase.day,
                     hour |-> extract_hour(phrase, 9),
                     minute |-> extract_minute(phrase),
                     second |-> 0, microsecond |-> 0]
        ELSE parsed = ValueError

\* "every month, day 31" read on 2024-02-15 gives 2024-03-31 09:00.
C4_Witness ==
    /\ MissingDayCase
    /\ phrase.day = 31 /\ phrase.mark = "none" /\ phrase.word = "none"
    /\ now.year = 2024 /\ now.month = 2 /\ now.day = 15
    /\ parsed \notin {None, ValueError, OverflowError}
    /\ parsed.repeat_value = <<Num(31)>>
    /\ parsed.remind_at.year = 2024 /\ parsed.remind_at.month = 3
    /\ parsed.remind_at.day = 31 /\ parsed.remind_at.hour = 9

\* C10: whenever the detector returns a rule, from whichever branch and for
\* whatever now, the first occurrence it returns is strictly after now.
C10_FirstOccurrenceAfterNow ==
    (dphase = "done" /\ parsed \notin {None, ValueError, OverflowError}) =>
        Before(now, parsed.remind_at)

\* A daily phrase whose stated time equals now to the microsecond: the first
\* occurrence is the same time on the next day.
C10_Witness ==
    /\ dphase = "done"
    /\ phrase.cadence = "mainichi"
    /\ parsed \notin {None, ValueError, OverflowError}
    /\ parsed.repeat_type = "daily"
    /\ SameWallClock(now, parsed.remind_at)
    /\ Ordinal(parsed.remind_at) = Ordinal(now) + 1

\* The time of day a phrase of the inputs states: 9時 is 09:00, 夜9時半 is
\* 21:30, 午後6時45分 is 18:45, and 09:00 when it states none.
DeclaredHour(p) ==
    IF p.mark = "none" THEN 9
    ELSE IF (p.mark = "gogo" \/ p.word = "yoru") /\ p.h < 12 THEN p.h + 12
    ELSE p.h

DeclaredMinute(p) ==
    IF p.mark = "none" THEN 0
    ELSE IF p.min = "han" THEN 30
    ELSE IF p.min = "fun" THEN p.m
    ELSE 0

\* The phrase states a time of day of the clock, or none.
DeclaredOnClock(p) == DeclaredHour(p) \in 0..23 /\ DeclaredMinute(p) \in 0..59

\* The datetime is at the time of day the phrase states, to the microsecond.
AtDeclaredTime(dt, p) ==
    /\ dt.hour = DeclaredHour(p) /\ dt.minute = DeclaredMinute(p)
    /\ dt.second = 0 /\ dt.microsecond = 0

\* The detector ran on a phrase of the cadence.
DetectorRanOn(cadence) == dphase = "done" /\ phrase.cadence = cadence

\* C17: for an "every <weekday>" phrase the detector returns the rule
\* {weekly, that weekday} and a first occurrence on that weekday, between 1
\* and 7 calendar days after the date of now, at the time of day the phrase
\* states (09:00 when it states none).
C17_WeeklyFirstOccurrence ==
    (DetectorRanOn("maishu_youbi") /\ DeclaredOnClock(phrase)) =>
        /\ parsed \notin {None, ValueError, OverflowError}
        /\ parsed.repeat_type = "weekly"
        /\ parsed.repeat_value = <<Tok(phrase.wd_name)>>
        /\ WEEKDAY_NAMES[Weekday(parsed.remind_at) + 1] = phrase.wd_name
        /\ Ordinal(parsed.remind_at) - Ordinal(now) \in 1..7
        /\ AtDeclaredTime(parsed.remind_at, phrase)

\* C17 witness: "every Friday, 午後6時45分" read on Monday 2024-01-01 at 09:00
\* gives Friday 2024-01-05 at 18:45; and "every Monday" read on that Monday
\* gives the Monday a week later.
C17_Witness ==
    /\ DetectorRanOn("maishu_youbi")
    /\ now.year = 2024 /\ now.month = 1 /\ now.day = 1 /\ now.hour = 9
    /\ Weekday(now) = 0
    /\ \/ /\ phrase.wd_name = "kin" /\ phrase.mark = "gogo"
          /\ parsed \notin {None, ValueError, OverflowError}
          /\ parsed.repeat_type = "weekly" /\ parsed.repeat_value = <<Tok("kin")>>
          /\ parsed.remind_at.day = 5 /\ parsed.remind_at.hour = 18
          /\ parsed.remind_at.minute = 45
       \/ /\ phrase.wd_name = "getsu" /\ phrase.mark = "none"
          /\ parsed \notin {None, ValueError, OverflowError}
          /\ parsed.remind_at.day = 8 /\ parsed.remind_at.hour = 9

\* Day N of the month of now, at the time the phrase states, is a date and
\* is after now.
DayStillAhead(p, n) ==
    /\ ValidDate(n.year, n.month, p.day)
    /\ Before(n, [n EXCEPT !.day = p.day, !.hour = DeclaredHour(p),
                            !.minute = DeclaredMinute(p), !.second = 0, !.microsecond = 0])

\* C18 as stated: for "every month, day N" with N in 1..31 the detector
\* returns {monthly, N} with a first occurrence, without raising: day N of
\* this month when it exists and is still ahead, otherwise day N of next
\* month. Stated for the phrases whose time of day is one of the clock.
C18_MonthlyDayNeverRaises ==
    (DetectorRanOn("maitsuki_nichi") /\ phrase.day \in 1..31 /\ DeclaredOnClock(phrase)) =>
        /\ parsed \notin {None, ValueError, OverflowError}
        /\ parsed.repeat_type = "monthly"
        /\ parsed.repeat_value = FormatDay(phrase.day)
        /\ parsed.remind_at.day = phrase.day
        /\ AtDeclaredTime(parsed.remind_at, phrase)
        /\ IF DayStillAhead(phrase, now)
           THEN parsed.remind_at.year = now.year /\ parsed.remind_at.month = now.month
           ELSE /\ parsed.remind_at.year = MonthPlus(now.year, now.month, 1).year
                /\ parsed.remind_at.month = MonthPlus(now.year, now.month, 1).month

\* The first day after the day of ordinal o that is neither Saturday nor
\* Sunday.
NextWorkday(o) ==
    CHOOSE d \in (o + 1)..(o + 3) :
        /\ (d + 6) % 7 < 5
        /\ \A e \in (o + 1)..(d - 1) : (e + 6) % 7 >= 5

\* Today at the time the phrase states is after now.
TimeStillAhead(p, n) ==
    Before(n, [n EXCEPT !.hour = DeclaredHour(p), !.minute = DeclaredMinute(p),
                        !.second = 0, !.microsecond = 0])

\* C19: for a "weekdays" phrase the first occurrence of the detector never
\* falls on Saturday or Sunday: it is today at the stated time when today is
\* Monday to Friday and that time is still ahead, otherwise the next day from
\* Monday to Friday at that time.
C19_WeekdaysFirstOccurrence ==
    (DetectorRanOn("heijitsu") /\ DeclaredOnClock(phrase)) =>
        /\ parsed \notin {None, ValueError, OverflowError}
        /\ parsed.repeat_type = "weekdays"
        /\ Weekday(parsed.remind_at) < 5
        /\ AtDeclaredTime(parsed.remind_at, phrase)
        /\ Ordinal(parsed.remind_at) =
                IF Weekday(now) < 5 /\ TimeStillAhead(phrase, now)
                THEN Ordinal(now) ELSE NextWorkday(Ordinal(now))

\* C19 witness: a Friday evening, a Saturday and a Sunday give the Monday
\* after; a Monday morning before the stated time gives that Monday.
C19_Witness ==
    /\ DetectorRanOn("heijitsu") /\ DeclaredOnClock(phrase)
    /\ parsed \notin {None, ValueError, OverflowError}
    /\ \/ /\ Weekday(now) = 4 /\ ~TimeStillAhead(phrase, now)
          /\ Ordinal(parsed.remind_at) = Ordinal(now) + 3
       \/ /\ Weekday(now) = 5 /\ TimeStillAhead(phrase, now)
          /\ Ordinal(parsed.remind_at) = Ordinal(now) + 2
       \/ /\ Weekday(now) = 0 /\ TimeStillAhead(phrase, now)
          /\ Ordinal(parsed.remind_at) = Ordinal(now)

\* The detector ran on an ordinal-weekday phrase that states no time, at
\* 09:00:00 sharp: its candidates are at 09:00:00, the time of day the
\* candidates of the calculator have when it searches from now.
SameSearchCase ==
    /\ dphase = "done"
    /\ phrase.cadence \in {"maitsuki_dai_zenjitsu", "maitsuki_dai"}
    /\ phrase.mark = "none" /\ phrase.word = "none"
    /\ now.hour = 9 /\ now.minute = 0 /\ now.second = 0 /\ now.microsecond = 0

\* What the calculator returns for the rule of the phrase, searching from now.
CalculatorFromNow ==
    _calculate_next_time(now, "monthly",
                         FormatNth(phrase.nths, phrase.wd_name,
                                   phrase.cadence = "maitsuki_dai_zenjitsu"))

\* C20 as stated: whenever the search of the calculator from the reference
\* instant yields a next date for an ordinal-weekday rule, the detector also
\* yields a first occurrence, and the two are equal.
C20_SameOrdinalSearch ==
    (SameSearchCase /\ CalculatorFromNow \notin {None, OverflowError}) =>
        /\ parsed \notin {None, ValueError, OverflowError}
        /\ parsed.remind_at = CalculatorFromNow

-----------------------------------------------------------------------------
(* Properties of the scheduler, checked under SpecSched.                    *)

\* Position i of the history records that advance gave reminder log[i].id no
\* next occurrence.
Exhausted(i) == log[i].op = "exhausted"

\* The firing that exhausted the rule left the reminder inactive with the
\* stored occurrence it found.
DeactivatedInPlace(i) ==
    /\ log[i].after.is_active = 0
    /\ log[i].after.remind_at = log[i].before.remind_at

\* Reminder id was snoozed between positions i and j of the history.
SnoozedBetween(id, i, j) ==
    \E m \in (i + 1)..(j - 1) : log[m].op = "snooze" /\ log[m].id = id

\* Advance gave reminder id no next occurrence, and no snooze button of the
\* reminder was pressed since.
RanOut(id) ==
    \E i \in 1..Len(log) :
        Exhausted(i) /\ log[i].id = id /\ ~SnoozedBetween(id, i, Len(log) + 1)

\* Task k is the firing for which advance gave no next occurrence: its last
\* calls are those of lines 145 and 160.
FiringRanOut(k) ==
    /\ task[k].pc = "done"
    /\ Len(task[k].calls) >= 2
    /\ SubSeq(task[k].calls, Len(task[k].calls) - 1, Len(task[k].calls))
           = <<"_calculate_next_time", "deactivate_reminder">>

\* The step is channel.send returning in task k: the message goes out.
Sends(k) ==
    /\ k <= Len(task')
    /\ task[k].pc = "sending" /\ task'[k].pc = "sent" /\ task'[k].delivered

\* C7 as stated: whenever advance yields no next occurrence for a fired
\* recurring reminder (the ordinal search is exhausted, or the recurrence
\* kind is not recognised), the scheduler deactivates the reminder and does
\* not change its stored occurrence, and no later check dispatches the
\* reminder again: no task made after the firing that ran out sends its
\* message.  A reminder snoozed since, which the button activates again, is
\* left aside.
C7_ExhaustedNeverDispatchedAgain ==
    [][/\ \A i \in 1..Len(log') : Exhausted(i)' => DeactivatedInPlace(i)'
       /\ \A k \in 1..Len(task) :
             (Sends(k) /\ RanOut(task[k].id))
                 => ~\E first \in 1..(k - 1) :
                        task[first].id = task[k].id /\ FiringRanOut(first)]_vars

\* How many times a firing made the named call.
CallCount(k, name) ==
    Cardinality({ c \in 1..Len(task[k].calls) : task[k].calls[c] = name })

\* Task k is the finished firing of a recurring reminder whose send_reminder
\* returned: the message went out, or the channel could not be fetched, or
\* sending was forbidden.
FiredRecurring(k) ==
    /\ task[k].pc = "done"
    /\ IsRecurring(task[k].reminder.repeat_type)
    /\ task[k].outcome \in {"ok", "fetch_failed", "forbidden"}

\* C8: for each fired occurrence of a recurring reminder the scheduler calls
\* advance exactly once and persists exactly one of the next timestamp and a
\* deactivation, never both, also when the channel cannot be fetched or
\* sending is forbidden.
C8_OneAdvanceOnePersisted ==
    \A k \in 1..Len(task) :
        FiredRecurring(k) =>
            /\ CallCount(k, "_calculate_next_time") = 1
            /\ (CallCount(k, "update_reminder_time") > 0)
                   # (CallCount(k, "deactivate_reminder") > 0)
            /\ CallCount(k, "update_reminder_time")
                   + CallCount(k, "deactivate_reminder") = 1

\* Task k sent the message of a reminder without recurrence (repeat_type
\* NULL or "none"), and no snooze button of the reminder was pressed so far.
SingleSent(k) ==
    /\ task[k].delivered
    /\ ~IsRecurring(task[k].reminder.repeat_type)
    /\ ~SnoozedBetween(task[k].id, 0, Len(log) + 1)

\* C25 as stated: after a reminder without recurrence has been sent, it is
\* inactive, and no later check dispatches it again unless it is snoozed in
\* between: once the task that sent it has ended the row is inactive, no
\* later check picks the reminder up, and no task made after the one that
\* sent it sends it again.
C25_SingleShotSentOnce ==
    [][\A k \in 1..Len(task) :
          /\ (SingleSent(k)' /\ task'[k].pc \in {"done", "cancelled"})
                 => db'[task[k].id].is_active = 0
          /\ SingleSent(k) =>
                /\ \A new \in (Len(task) + 1)..Len(task') : task'[new].id # task[k].id
                /\ \A later \in (k + 1)..Len(task) :
                      task[later].id = task[k].id => ~Sends(later)]_vars

\* The tasks a step creates carry the rows of reminders that storage holds
\* as active with an occurrence at or before the clock of the check.
OnlyDuePickedUp ==
    \A k \in (Len(task) + 1)..Len(task') :
        /\ db[task'[k].id].is_active = 1
        /\ ~Before(clock, db[task'[k].id].remind_at)
        /\ task'[k].reminder = db[task'[k].id]
        /\ task'[k].pc = "queued"

\* No step sends for a task that a check did not create.
OnlyTasksSent ==
    \A k \in 1..Len(task) :
        /\ k <= Len(task')
        /\ task'[k].id = task[k].id
        /\ task'[k].reminder = task[k].reminder

\* C26: a scheduler check dispatches a reminder only if, when the check
\* queried storage, the reminder was active and its stored occurrence was at
\* or before the check's now; inactive reminders and reminders with a future
\* occurrence are never sent.
C26_OnlyActiveDueDispatched == [][OnlyDuePickedUp /\ OnlyTasksSent]_vars

\* C26 witness: the check at start-up dispatched reminder 1, due, and left
\* reminder 2, active with its occurrence ahead, alone.
C26_Witness ==
    /\ boot = "running"
    /\ Len(task) = 1 /\ task[1].id = 1 /\ task[1].outcome = "ok"
    /\ db[2].is_active = 1 /\ Before(clock, db[2].remind_at)

-----------------------------------------------------------------------------
(* Properties of the resolver, checked under SpecResolve.                   *)

\* The resolver has just returned or raised: answer holds what it gave.
ResolverAnswered ==
    /\ stage \in {"returned", "raised"}
    /\ calls[Len(calls)] = "parse_datetime_pattern"

\* The units of the relative-offset phrases whose rules add a timedelta to
\* now (lines 313-330), and those whose rules go through make_time (332-344).
ClockUnits == {"half_hours", "hours", "minutes"}
DateUnits == {"days", "weeks"}

\* The whole days of the duration a relative-offset phrase declares.
DeclaredDays(unit, count) ==
    CASE unit \in {"half_hours", "hours"} -> count \div 24
      [] unit = "minutes" -> count \div 1440
      [] unit = "days" -> count
      [] unit = "weeks" -> count * 7

\* The rest of that duration, in seconds.
DeclaredSeconds(unit, count) ==
    CASE unit = "half_hours" -> (count % 24) * 3600 + 1800
      [] unit = "hours" -> (count % 24) * 3600
      [] unit = "minutes" -> (count % 1440) * 60
      [] unit \in DateUnits -> 0

\* The day, as an ordinal, of now plus the duration the phrase declares.
DeclaredOrdinal(unit, count) ==
    Ordinal(instant) + DeclaredDays(unit, count)
        + (SecondOfDay(instant) + DeclaredSeconds(unit, count)) \div 86400

\* Now plus the declared duration is a day datetime holds.
WithinDatetime(unit, count) == DeclaredOrdinal(unit, count) <= Ordinal(MaxDate)

\* The answer is now plus the duration the phrase declares, to the microsecond.
ExactlyLater(unit, count) ==
    /\ answer # None /\ ~Raised(answer)
    /\ Ordinal(answer.datetime) = DeclaredOrdinal(unit, count)
    /\ SecondOfDay(answer.datetime)
           = (SecondOfDay(instant) + DeclaredSeconds(unit, count)) % 86400
    /\ answer.datetime.microsecond = instant.microsecond

\* The text states no time of day.
NoTimeStated(t) == TimeOf(t) = NoTime

\* C11 as stated: for every relative-offset phrase (N hours, N hours and a
\* half, N minutes, N days, N weeks from now) the resolved occurrence is now
\* plus the declared duration exactly, with now's hour, minute, second and
\* microsecond.  The phrases are those of RelativeTextsOf followed by the
\* content, with a duration that ends on a day datetime holds.
C11_RelativeOffsetExact ==
    \A count \in Offsets, unit \in ClockUnits \cup DateUnits :
        (/\ ResolverAnswered
         /\ \E e \in RelativeTextsOf(count)[unit] : user_input = e \o Content
         /\ WithinDatetime(unit, count))
            => ExactlyLater(unit, count)

\* The stages of a resolution, in the order the claim gives them.
StageOrder == <<"parse_repeat_pattern", "parse_datetime_pattern", "parse_datetime_llm">>

\* The step calls a stage of the resolution.
CallsStage == Len(calls') > Len(calls)

\* C12: in one resolution the detector runs first, the resolver runs only
\* after the detector returned no match, and the fallback is invoked only
\* after both returned no match: every call is that of the next stage in
\* order, and a stage after the first is called only when the stage before
\* it has handed back None; once a stage has handed back a result or raised,
\* no further stage is called.
C12_StagedResolution ==
    [][CallsStage =>
          /\ Len(calls) < Len(StageOrder)
          /\ calls' = SubSeq(StageOrder, 1, Len(calls) + 1)
          /\ calls # <<>> => answer = None /\ stage \notin {"returned", "raised"}]_vars

\* The fallback was called, after both stages, and gave the datetime returned.
C12_Witness ==
    /\ calls = StageOrder
    /\ stage = "returned"
    /\ answer # None

ClockRules == {"jikan_han_go", "jikan_go", "fun_go", "ato_jikan"}
RelativeFamily == ClockRules \cup {"nichi_go", "shuukan_go"}
NamedDayFamily == {"shiasatte", "asatte", "ashita", "kyou"}
WeekendFamily == {"raishuumatsu", "shuumatsu"}
MonthAfterNextBoundaries == {"saraigetsu_matsu", "saraigetsu_sho"}
MonthBoundaries == {"raigetsu_matsu", "getsumatsu", "raigetsu_sho", "gessho"}
ExplicitDayFamily == {"raigetsu_nichi", "kongetsu_nichi"}
WeekdayFamily == {"saraishuu_youbi", "raishuu_youbi", "konshuu_youbi", "tsugi_youbi"}
MonthDayFamily == {"gatsu_nichi"}
TimeOnlyFamily ==
    {"shogo", "shinya", "gogo_ji", "gozen_ji", "ji_han", "ji_fun", "ji",
     "asa", "hiru", "yugata", "yoru"}

\* The eight families in the order of the claim.  The rule of a bare 再来月,
\* which the claim does not place, is left out.
ClaimedFamilies ==
    << RelativeFamily, NamedDayFamily, WeekendFamily,
       MonthAfterNextBoundaries \cup MonthBoundaries,
       {"saraigetsu_nichi"} \cup ExplicitDayFamily,
       WeekdayFamily, MonthDayFamily, TimeOnlyFamily >>

\* The families in the order the resolver tries them: the rules of the month
\* after next (end, start, day N, bare) come before the month boundaries.
TriedFamilies ==
    << RelativeFamily, NamedDayFamily, WeekendFamily,
       MonthAfterNextBoundaries \cup {"saraigetsu_nichi", "saraigetsu"},
       MonthBoundaries, ExplicitDayFamily,
       WeekdayFamily, MonthDayFamily, TimeOnlyFamily >>

\* The rules among those at the positions given.
RulesAt(positions) == {PatternRules[i] : i \in positions}

\* The first family, by position, with one of the rules (0 without one).
FirstFamily(families, rules) ==
    IF \A f \in 1..Len(families) : families[f] \cap rules = {} THEN 0
    ELSE CHOOSE f \in 1..Len(families) :
            /\ families[f] \cap rules # {}
            /\ \A g \in 1..(f - 1) : families[g] \cap rules = {}

\* The rule that answered belongs to the first family the text satisfies.
FirstFamilyWins(families, rules, first, fired) ==
    first # 0 => fired \in families[first]

\* The answer is what a rule of the family yields on the text.
FamilyAnswers(family, rules) ==
    \E r \in family \cap rules :
        answer = AfterResolver(Yield(r, text, instant, Hit(r, text)), Contents[user_input]).answer

\* The resolver has just run: answer holds what it gave.
ResolverRan == Len(calls) = 2

\* C13 as stated: when a phrase satisfies more than one family, the result
\* is computed by the first of them in the order relative offsets, named
\* days, weekend, month boundaries, explicit day of this/next/month after
\* next, weekday references, explicit month/day, time of day only.
C13_ClaimedOrderWins ==
    (ResolverRan /\ FiredRule(text) # "saraigetsu")
        => FirstFamilyWins(ClaimedFamilies, RulesAt(Applying(text)),
                           FirstFamily(ClaimedFamilies, RulesAt(Applying(text))),
                           FiredRule(text))

\* The first family in the order tried answers.
TriedOrderWins(rules, first, fired) ==
    /\ FirstFamilyWins(TriedFamilies, rules, first, fired)
    /\ first # 0 => FamilyAnswers(TriedFamilies[first], rules)

\* C13 amended: the result is computed by the first family the phrase
\* satisfies in the order relative offsets, named days, weekend, month after
\* next (end, start, day N, bare), month boundaries of this and next month,
\* explicit day of next or this month, weekday references, explicit
\* month/day, time of day only.
C13_TriedOrderWins ==
    ResolverRan
        => TriedOrderWins(RulesAt(Applying(text)),
                          FirstFamily(TriedFamilies, RulesAt(Applying(text))),
                          FiredRule(text))

\* 再来月10日の月末 answered with the 10th of the month after next.
C13_Witness ==
    /\ ResolverAnswered
    /\ FiredRule(text) = "saraigetsu_nichi"
    /\ "getsumatsu" \in RulesAt(Applying(text))
    /\ ~Raised(answer) /\ answer.datetime.day = 10

\* The date an explicit-day rule names is in the calendar: day N of this
\* month, of next month or of the month after next; month M day D of this
\* year, or of next year when that date of this year is behind.
NamedDateExists(r, n, m) ==
    CASE r = "saraigetsu_nichi" ->
            ValidDate(MonthsAhead(n, 2).year, MonthsAhead(n, 2).month, Group(m, 1))
      [] r = "raigetsu_nichi" ->
            ValidDate(MonthsAhead(n, 1).year, MonthsAhead(n, 1).month, Group(m, 1))
      [] r = "kongetsu_nichi" -> ValidDate(n.year, n.month, Group(m, 1))
      [] r = "gatsu_nichi" ->
            /\ ValidDate(n.year, Group(m, 1), Group(m, 2))
            /\ ToOrdinal(n.year, Group(m, 1), Group(m, 2)) < Ordinal(n)
                 => ValidDate(n.year + 1, Group(m, 1), Group(m, 2))

ExplicitDateRules == {"saraigetsu_nichi", "raigetsu_nichi", "kongetsu_nichi", "gatsu_nichi"}

\* C14: an explicit day N of this month, next month or the month after next,
\* or an explicit M月D日, that is not in the calendar makes the resolver
\* return no match: it neither raises nor returns another date.
C14_InvalidDayNoMatch ==
    (ResolverRan /\ FiredRule(text) \in ExplicitDateRules
        /\ ~NamedDateExists(FiredRule(text), instant, Hit(FiredRule(text), text)))
    => answer = None /\ stage = "fallback"

\* 来月31日 asked in January: no match, and the fallback is next.
C14_Witness ==
    /\ ResolverRan
    /\ FiredRule(text) = "raigetsu_nichi"
    /\ Group(Hit("raigetsu_nichi", text), 1) = 31
    /\ instant.month = 1
    /\ answer = None /\ stage = "fallback"

-----------------------------------------------------------------------------
(* Properties of extract_content, checked under SpecContent.                *)

\* What is left of the input once every pattern is taken out and the spaces
\* are tidied, before line 693 chooses what to return.
Remainder(input) ==
    CHOOSE rest \in { Strip(Collapse(StripLeadingParticle(content))) :
                          content \in {SubAll(ContentPatterns, input)} } : TRUE

\* extract_content has returned on a non-empty input.
ContentReturned ==
    stage = "returned" /\ calls = <<"extract_content">> /\ user_input # <<>>

\* C15: extract_content never returns an empty string for a non-empty input:
\* when taking out every temporal expression leaves nothing, the input is
\* returned unchanged.
C15_ContentNeverEmpty ==
    ContentReturned =>
        /\ answer.content # <<>>
        /\ Remainder(text) = <<>> => answer.content = user_input

\* C15 witness: 午前9時半 is an expression and nothing else, and comes back
\* whole.
C15_Witness ==
    /\ ContentReturned
    /\ user_input = Text(<<Tok("noon"), Tok("zen"), Num(9), Tok("ji"), Tok("han")>>)
    /\ Remainder(text) = <<>>
    /\ answer.content = user_input

-----------------------------------------------------------------------------
(* Properties of parse_datetime_pattern, checked under SpecPattern.         *)

\* parse_datetime_pattern has just returned or raised on the input.
PatternAnswered ==
    /\ stage \in {"returned", "raised"}
    /\ calls = <<"parse_datetime_pattern">>

\* The hour a time-of-day-only phrase states: 12 for noon and midday, 23 for
\* late night, 8, 17 and 20 for morning, evening and night, the hour written
\* otherwise (after noon for 午後).
WrittenHour(r, m) ==
    CASE r \in {"shogo", "hiru"} -> 12
      [] r = "shinya" -> 23
      [] r = "asa" -> 8
      [] r = "yugata" -> 17
      [] r = "yoru" -> 20
      [] r = "gogo_ji" -> IF Group(m, 1) < 12 THEN Group(m, 1) + 12 ELSE Group(m, 1)
      [] r \in {"gozen_ji", "ji_han", "ji_fun", "ji"} -> Group(m, 1)

\* The minute it states: 30 for 半, the minutes written, 0 otherwise.
WrittenMinute(r, t) ==
    IF r \in {"gogo_ji", "gozen_ji", "ji_han", "ji_fun"}
    THEN (IF TimeOf(t).min = "han" THEN 30
          ELSE IF TimeOf(t).min = "fun" THEN TimeOf(t).m ELSE 0)
    ELSE 0

\* The answer is at hour:minute:00 today when that is strictly after now and
\* tomorrow otherwise, and so after now and no more than 24 hours after it.
TodayElseTomorrow(n, remind_at, hour, minute) ==
    /\ remind_at \notin {None, ValueError, OverflowError}
    /\ remind_at.hour = hour /\ remind_at.minute = minute
    /\ remind_at.second = 0 /\ remind_at.microsecond = 0
    /\ Ordinal(remind_at) - Ordinal(n)
         = (IF hour * 3600 + minute * 60 > SecondOfDay(n) THEN 0 ELSE 1)
    /\ Before(n, remind_at)
    /\ ~Before(AddDays(n, 1), remind_at)

\* C21: for a time-of-day-only phrase whose time is on the clock, the
\* resolver returns today at the stated time when that is strictly after now
\* and tomorrow at that time otherwise: now < result <= now + 24 hours at
\* every reference instant.
C21_TimeOnlyTodayOrTomorrow ==
    PatternAnswered =>
        \A r \in {FiredRule(text)} :
            r \in TimeOnlyFamily =>
                \A hour \in {WrittenHour(r, Hit(r, text))}, minute \in {WrittenMinute(r, text)} :
                    (hour \in 0..23 /\ minute \in 0..59)
                        => TodayElseTomorrow(instant, answer, hour, minute)

\* C21 witness: 午前9時 asked at 09:00:00 sharp is answered by the 午前 rule
\* with tomorrow 09:00, 24 hours after now.
C21_Witness ==
    /\ PatternAnswered
    /\ FiredRule(text) = "gozen_ji"
    /\ SecondOfDay(instant) = 9 * 3600 /\ instant.microsecond = 0
    /\ answer = AddDays(instant, 1)

\* C22 as stated: for a "today" phrase without an explicit hour, at every
\* reference instant (hours 0..23) the resolver returns, without raising, a
\* timestamp on today's date at hour now.hour + 1, minute 0.
C22_TodayDefaultsToNextHour ==
    (PatternAnswered /\ FiredRule(text) = "kyou" /\ NoTimeStated(text))
    => /\ answer \notin {None, ValueError, OverflowError}
       /\ answer = [instant EXCEPT !.hour = instant.hour + 1, !.minute = 0,
                                   !.second = 0, !.microsecond = 0]

\* A bare hour 1..11 beside 昼, 夕方, 夜 or 深夜, without 朝, 午前 or 午後.
BareEveningHour(te) == te.mark = "ji" /\ te.word = "yoru" /\ te.h \in 1..11

\* The rules that take the hour from the phrase: all but the offsets of
\* hours and minutes and the time-of-day words.
HourFromPhrase(r) ==
    r \notin ClockRules \cup {"shogo", "shinya", "asa", "hiru", "yugata", "yoru", "none"}

\* C23 as stated: whenever a phrase carries a bare hour h in 1..11 together
\* with an afternoon, evening or night word and no AM marker, the resolved
\* hour is h + 12, in every rule family that takes the hour from the phrase,
\* the time-of-day-only family included.
C23_EveningHourEverywhere ==
    (PatternAnswered /\ answer \notin {None, ValueError, OverflowError})
    => \A te \in {TimeOf(text)} :
          (BareEveningHour(te) /\ HourFromPhrase(FiredRule(text)))
              => answer.hour = te.h + 12

MonthEndRules == {"saraigetsu_matsu", "raigetsu_matsu", "getsumatsu"}

\* How many months after now's month the rule aims at.
MonthsOut(r) ==
    CASE r = "saraigetsu_matsu" -> 2
      [] r = "raigetsu_matsu" -> 1
      [] r = "getsumatsu" -> 0

\* dt is the last calendar day of the month k months after n's: the next day
\* is a first of the month.
TrueMonthEnd(n, k, dt) ==
    /\ dt \notin {None, ValueError, OverflowError}
    /\ dt.year = n.year + ((n.month - 1 + k) \div 12)
    /\ dt.month = ((n.month - 1 + k) % 12) + 1
    /\ dt.day = DaysInMonth(dt.year, dt.month)
    /\ AddDays(dt, 1).day = 1

\* C24: for the last day of this month, of next month and of the month after
\* next, the resolved date is the true last calendar day of the target month
\* (28, 29, 30 or 31) for every reference month and year, the year rolling
\* over when the target month is past December.
C24_TrueLastDay ==
    PatternAnswered =>
        \A r \in {FiredRule(text)} :
            r \in MonthEndRules => TrueMonthEnd(instant, MonthsOut(r), answer)

\* C24 witness: 来月末 asked in January of a leap year is answered with
\* February 29th.
C24_Witness ==
    /\ PatternAnswered
    /\ FiredRule(text) = "raigetsu_matsu"
    /\ instant.month = 1 /\ IsLeap(instant.year)
    /\ answer \notin {None, ValueError, OverflowError}
    /\ answer.month = 2 /\ answer.day = 29

-----------------------------------------------------------------------------
(* Properties of the gather of check_and_send_reminders, checked under      *)
(* SpecGather.                                                              *)

\* The reminders inside send-and-post-process.
RemindersInside == { task[k].id : k \in Inside }

\* C27: at any moment at most MAX_CONCURRENT_SENDS (3) reminders are inside
\* send-and-post-process, however many reminders are due.
C27_AtMostThreeInside == Cardinality(RemindersInside) <= MAX_CONCURRENT_SENDS

\* A task that ended without raising sent its message and post-processed it.
Processed(k) ==
    /\ task[k].outcome = "ok"
    /\ task[k].calls = <<"_calculate_next_time", "update_reminder_time">>

\* The call of check_and_send_reminders has returned: it made tasks and each
\* of them has ended or was cancelled by the timeout.
Returned(check) ==
    /\ \E k \in 1..Len(task) : task[k].check = check
    /\ Unfinished(check) = {}

\* C28 as stated: when sending or post-processing one due reminder raises,
\* that reminder is deactivated, and every other reminder due in the same
\* check is still sent and post-processed: when the check has returned, the
\* row of the reminder that raised is inactive and every other task of the
\* check has sent its message and stored the next occurrence.
C28_RaisedIsDeactivated ==
    \A k \in Failed :
        Returned(task[k].check) =>
            /\ db[task[k].id].is_active = 0
            /\ \A other \in 1..Len(task) :
                  (task[other].check = task[k].check /\ other # k)
                      => task[other].pc = "done" /\ Processed(other)

-----------------------------------------------------------------------------
(* Properties of the table under the users' operations, checked under       *)
(* SpecStore.                                                               *)

\* Seconds from instant a to instant b, by the calendar.
SecondsBetween(a, b) ==
    (Ordinal(b) - Ordinal(a)) * 86400 + (SecondOfDay(b) - SecondOfDay(a))

\* Every row but that of id is the same in tables before and after, and no
\* row came or went.
OthersUnchanged(before, after, id) ==
    /\ DOMAIN after = DOMAIN before
    /\ \A other \in DOMAIN before \ {id} : after[other] = before[other]

\* C29: a successful snooze of reminder r by m minutes (m in 5, 30, 60, 1440)
\* sets r's stored occurrence to the click time plus m minutes and makes r
\* active whatever it was, leaving r's content, owner and recurrence rule and
\* every other reminder unchanged; a snooze of a non-existent id fails and
\* creates no row.
C29_SnoozeSetsTimeAndActivates ==
    \A i \in 1..Len(log) :
        log[i].op = "snooze" =>
            LET before == log[i].before
                after == log[i].after
                r == log[i].id
            IN  /\ log[i].success <=> r \in DOMAIN before
                /\ log[i].success =>
                      /\ SecondsBetween(log[i].at, after[r].remind_at) = log[i].arg * 60
                      /\ after[r].remind_at.microsecond = log[i].at.microsecond
                      /\ after[r].is_active = 1
                      /\ after[r].content = before[r].content
                      /\ after[r].user_id = before[r].user_id
                      /\ after[r].repeat_type = before[r].repeat_type
                      /\ after[r].repeat_value = before[r].repeat_value
                      /\ OthersUnchanged(before, after, r)
                /\ ~log[i].success => after = before

\* C29 witness: the "tomorrow" button of an inactive reminder was pressed
\* late on the last day of a month by a user who does not own it, after its
\* content had been edited.
C29_Witness ==
    \E i \in 1..Len(log) :
        /\ log[i].op = "snooze" /\ log[i].arg = 1440 /\ log[i].success
        /\ log[i].before[log[i].id].is_active = 0
        /\ log[i].before[log[i].id].user_id # log[i].user
        /\ log[i].before[log[i].id].content \in NewContents
        /\ log[i].after[log[i].id].remind_at.month = log[i].at.month + 1
        /\ db = log[i].after

\* The operations that take the id of the calling user.
OwnerChecked == {"delete_reminder", "update_reminder_content", "update_reminder_time_by_user"}

\* C30: delete_reminder, update_reminder_content and
\* update_reminder_time_by_user called with a user id different from the
\* reminder's owner return False and leave every stored reminder unchanged.
C30_NotOwnerChangesNothing ==
    \A i \in 1..Len(log) :
        (/\ log[i].op \in OwnerChecked
         /\ log[i].id \in DOMAIN log[i].before
         /\ log[i].before[log[i].id].user_id # log[i].user)
            => ~log[i].success /\ log[i].after = log[i].before /\ db = log[i].before

\* C30 witness: u1 tried to delete the stored, active reminder of u2.
C30_Witness ==
    \E i \in 1..Len(log) :
        /\ log[i].op = "delete_reminder" /\ log[i].user = "u1"
        /\ log[i].id \in DOMAIN log[i].before
        /\ log[i].before[log[i].id].user_id = "u2"
        /\ log[i].before[log[i].id].is_active = 1
        /\ ~log[i].success
        /\ log[i].id \in DOMAIN db

-----------------------------------------------------------------------------
(* Properties of the supervisor loop of main(), checked under SpecMain.     *)

\* The positions of the crashes in the history.
CrashesUpTo(i) == { j \in 1..i : mlog[j].kind = "crash" }

\* The crash before position i, if any.
CrashBefore(i) == { j \in CrashesUpTo(i - 1) : \A k \in CrashesUpTo(i - 1) : k <= j }

\* Each crash came at most 300 seconds after the one before it.
CrashesClose ==
    \A i \in CrashesUpTo(Len(mlog)) :
        \A j \in CrashBefore(i) : mlog[i].at - mlog[j].at <= 300

\* C31: when the bot crashes repeatedly, each crash at most 300 seconds
\* after the previous one, the bot is started at most 5 times and main()
\* returns after the 5th crash, having waited 5 x (crash count) seconds
\* before each restart; a normal return or KeyboardInterrupt ends the loop
\* with no restart.
C31_SupervisorStops ==
    /\ CrashesClose =>
          /\ Starts <= 5
          /\ Cardinality(CrashesUpTo(Len(mlog))) <= 5
          /\ Cardinality(CrashesUpTo(Len(mlog))) = 5
                => mpc = "done" /\ mlog[Len(mlog)].kind = "crash"
          /\ \A i \in 1..Len(mlog) :
                /\ mlog[i].kind = "sleep"
                      => /\ mlog[i].n = 5 * Cardinality(CrashesUpTo(i))
                         /\ mlog[i].at - mlog[i - 1].at = mlog[i].n
                /\ (mlog[i].kind = "start" /\ i > 1)
                      => mlog[i - 1].kind = "sleep" /\ mlog[i].at = mlog[i - 1].at
                /\ (mlog[i].kind = "crash" /\ i < Len(mlog))
                      => mlog[i + 1].kind = "sleep"
    /\ \A i \in 1..Len(mlog) :
          mlog[i].kind \in {"returned", "interrupted"} => i = Len(mlog) /\ mpc = "done"

\* C31 witness: five starts, five crashes, one of them exactly 300 seconds
\* after the one before, and main() has returned.
C31_Witness ==
    /\ CrashesClose
    /\ Starts = 5 /\ Cardinality(CrashesUpTo(Len(mlog))) = 5
    /\ mpc = "done"
    /\ \E i \in CrashesUpTo(Len(mlog)) : \E j \in CrashBefore(i) : mlog[i].at - mlog[j].at = 300
    /\ { mlog[i].n : i \in { k \in 1..Len(mlog) : mlog[k].kind = "sleep" } } = {5, 10, 15, 20}

-----------------------------------------------------------------------------
(* Further properties of the calculator, checked under SpecAdvance.         *)

\* C32: for every rule kind and every fired occurrence t, whenever
\* _calculate_next_time(t, rule) returns a timestamp it is strictly after t,
\* so the stored occurrence of a recurring reminder strictly increases
\* across successive firings.
C32_NextStrictlyAfter ==
    (aphase = "done" /\ nxt # None) => Before(cur, nxt) /\ nxt # cur

\* C32 witness: a monthly rule fired on the 31st and the next month has no
\* 31st; the next occurrence is that month's last day.
C32_Witness ==
    /\ aphase = "done" /\ nxt # None
    /\ rule.repeat_type = "monthly" /\ NthMatch(rule.repeat_value) = None
    /\ cur.day = 31 /\ nxt.day < 31
    /\ Before(cur, nxt)

-----------------------------------------------------------------------------
(* Properties of a check as a whole, checked under SpecGather.              *)

\* The row of task k's reminder is inactive or holds a later occurrence than
\* the one the check read.
AdvancedOrDeactivated(k) ==
    \/ db[task[k].id].is_active = 0
    \/ Before(task[k].reminder.remind_at, db[task[k].id].remind_at)

\* C33: every reminder picked up as due by a scheduler check is, by the time
\* that check returns, either advanced to its next occurrence or
\* deactivated; no reminder that was sent in the check is left active with
\* its old occurrence, also when the 60-second timeout of the check expires.
C33_HandledWhenCheckReturns ==
    \A k \in 1..Len(task) :
        Returned(task[k].check) =>
            /\ AdvancedOrDeactivated(k)
            /\ task[k].delivered => AdvancedOrDeactivated(k)

\* C34: each occurrence of a reminder is delivered at most once: no stored
\* occurrence is sent twice, including when the start-up check and the
\* periodic check job overlap.
C34_OccurrenceSentOnce ==
    \A k, j \in 1..Len(task) :
        (/\ task[k].id = task[j].id
         /\ task[k].reminder.remind_at = task[j].reminder.remind_at
         /\ task[k].delivered /\ task[j].delivered)
            => k = j

-----------------------------------------------------------------------------
(* Properties of the scheduler after a stop, checked under SpecOverdue.     *)

\* The step is the post-processing of task k, which stored a next occurrence
\* for a recurring reminder: update_reminder_time succeeded (lines 148-152).
StoresNext(k) ==
    /\ k <= Len(task') /\ task[k].pc = "sent" /\ task'[k].pc = "done"
    /\ IsRecurring(task[k].reminder.repeat_type)
    /\ task'[k].calls = task[k].calls \o <<"_calculate_next_time", "update_reminder_time">>

\* C35: after the scheduler has handled a fired recurring reminder, the
\* stored next occurrence is strictly after the time of handling, so the
\* reminder is not due again at the next check, even when the fired
\* occurrence lay several periods in the past (the bot was stopped).
C35_NextAfterHandling ==
    [][\A k \in 1..Len(task) :
          StoresNext(k) =>
              /\ Before(clock, db'[task[k].id].remind_at)
              /\ ~IsDue(db', task[k].id, clock)]_vars

-----------------------------------------------------------------------------
(* Further properties of the operations of the users.                       *)

\* Operation i of the log was invoked on a stored reminder by a user who
\* does not own it.
ByStranger(i) ==
    /\ log[i].id \in DOMAIN log[i].before
    /\ log[i].before[log[i].id].user_id # log[i].user

\* C36: only the owner of a reminder can change its stored state: delete,
\* edit content, edit time, snooze and mark done have no effect when invoked
\* by a user other than the owner.
C36_OnlyOwnerChanges ==
    \A i \in 1..Len(log) :
        ByStranger(i) => log[i].after = log[i].before /\ db = log[i].before

-----------------------------------------------------------------------------
(* Further properties of the stored occurrence.                             *)

\* The weekday a weekly or biweekly rule names: the index of its value in
\* the names of the weekdays, Monday 0.
NamedWeekday(repeat_value) == WEEKDAY_MAP(repeat_value[1].t)

\* C37: for every active reminder with a weekly or biweekly rule, the weekday
\* of its stored occurrence equals the weekday named by the rule's value,
\* after any sequence of firings, snoozes and time edits.
C37_WeeklyKeepsWeekday ==
    \A id \in DOMAIN db :
        (/\ db[id].is_active = 1
         /\ db[id].repeat_type \in {"weekly", "biweekly"}
         /\ db[id].repeat_value \in WeekdayValues)
            => Weekday(db[id].remind_at) = NamedWeekday(db[id].repeat_value)

=============================================================================
